---- MODULE Spec2Model ----
(***************************************************************************)
(* A model of the lyst repository: the PackBits codec (packbits/src) and   *)
(* the Mohawk archive header parser (src/mohawk.rs).                       *)
(***************************************************************************)
EXTENDS Integers, Sequences, FiniteSets, TLC

(***************************************************************************)
(* Program constants.                                                      *)
(***************************************************************************)
MIN_REPEATED == 3
MAX_REPEATED == 128
MAX_LITERAL == 128
BYTES_PER_ENTRY == 10

(***************************************************************************)
(* Bounds of the model.                                                    *)
(***************************************************************************)
\* single bytes fed to the encoder one call at a time
MaxShort == 3
\* single bytes fed to the encoder after its first finalize
MaxAfter == 3
\* long chunks have lengths within Slack of a multiple of MAX_LITERAL
Slack == 1
\* length of the exhaustively enumerated decoder inputs
MaxDecLen == 3
\* sizes of the cuts of the decoder input (besides "all that is left")
MaxCut == 2
\* entries of the type table of an archive
MaxTypes == 2
\* entries of a file table that is read to its end (a wrapped count aside)
MaxFiles == 2

VARIABLES
    overflow_checks,  \* build profile: TRUE when arithmetic overflow panics
    enc,              \* Encoder.0
    fed,              \* every byte given to Encoder::encode so far
    encoded,          \* bytes returned by the encode calls, concatenated
    tail,             \* bytes returned by Encoder::finalize
    epanic,           \* "none", or the panic that ended an encoder call
    ephase,           \* "encoding", "finalized", "finalized again", "decoded",
                      \* "done"
    nshort,           \* single-byte encode calls made
    nlong,            \* long-chunk encode calls made
    fed_after,        \* bytes given to Encoder::encode after the first finalize
    out_after,        \* bytes the encoder returned after the first finalize
    dec,              \* Decoder.0
    din,              \* the byte string given to the decoder
    dpos,             \* bytes of din already passed to Decoder::decode
    decoded,          \* bytes returned by the decode calls, concatenated
    dcut,             \* where decode calls have ended inside a run so far
    dres,             \* result of Decoder::finalize, or "none"
    file,             \* the validated header fields of the archive file
    mpc,              \* where Mohawk::with_reader stands
    total_file_size,  \* returned by parse_iff_header
    rsrc,             \* the RSRCHeader returned by parse_rsrc_header
    name_list_offset, \* name_list_offset_in_resource_dir
    type_tables,      \* returned by parse_type_table
    file_count,       \* the u32 read by parse_file_table
    files,            \* returned by parse_file_table: FileID -> File
    mres,             \* the error (or panic) that ended the parse, or "none"
    mlog,             \* the parts of the file read so far, in order
    dir,              \* the resource directory the archive file holds
    types_tables,     \* (type, resource_table, resource_id_to_name) collected
    types,            \* Mohawk.types, the catalogue returned
    readers,          \* the MohawkReader values of mohawk/reader.rs, by name
    queue,            \* the PositionedCommands in the channel to the handler
    handler,          \* the Handler task: recorded pos, file cursor, status
    base,             \* bytes the file still holds under the base reader
    takes,            \* the sub-streams taken so far, each with its bytes left
    got,              \* bytes delivered by the innermost sub-stream so far
    last,             \* outcome of the last read: "none", "data", "eof", "error"
    ppc,              \* where PICT::parse stands
    header,           \* what the read of the 512-byte header found
    more,             \* TRUE when bytes follow what was read of the resource
    opin,             \* the operation Operation::parse was last called on
    opout,            \* what that call gave
    seen,             \* the operations that passed expect_op
    nops,             \* operations taken by the loop of PICT::parse
    found,            \* `ret` of PICT::parse: the image found so far
    pres,             \* what PICT::parse returned, or how it ended
    decoding          \* the loop that decodes the text of a LongText

pbvars == <<enc, fed, encoded, tail, epanic, ephase, nshort, nlong, fed_after,
           out_after>>
dvars == <<dec, din, dpos, decoded, dcut, dres>>
cvars == <<dir, types_tables, types>>
mvars == <<file, mpc, total_file_size, rsrc, name_list_offset, type_tables,
           file_count, files, mres, mlog, cvars>>
rvars == <<readers, queue, handler>>
tvars == <<base, takes, got, last>>
ovars == <<ppc, header, more, opin, opout, seen, nops, found, pres, decoding>>
svars == <<tvars, ovars>>
vars == <<overflow_checks, pbvars, dvars, mvars, rvars, svars>>

(***************************************************************************)
(* Integer conversions.                                                    *)
(***************************************************************************)
\* `x as i8` of a non-negative machine integer: keep the low 8 bits, signed
AsI8(x) == LET m == x % 256 IN IF m >= 128 THEN m - 256 ELSE m

\* the byte put_i8 writes for the signed value v
I8Byte(v) == (v + 256) % 256

Min(a, b) == IF a < b THEN a ELSE b

(***************************************************************************)
(* packbits/src/encode.rs                                                  *)
(***************************************************************************)
EncIdle == [tag |-> "Idle", buf |-> <<>>, byte |-> 0, count |-> 0]
EncLiteral(buf) == [tag |-> "Literal", buf |-> buf, byte |-> 0, count |-> 0]
EncRepeat(b, c) == [tag |-> "Repeat", buf |-> <<>>, byte |-> b, count |-> c]

\* An output operation: the bytes written, and whether it panicked.
\* panic is "none", "assert" (a failed assert!) or "overflow" (a failed
\* arithmetic overflow check).
Wrote(bytes) == [out |-> bytes, panic |-> "none"]
Panicked(why) == [out |-> <<>>, panic |-> why]

\* output_literal: assert on the size, then control byte (len - 1) and the
\* bytes.  len - 1 on an empty buffer underflows usize: a panic with overflow
\* checks, otherwise usize::MAX as i8 = -1.
output_literal(buf) ==
    IF Len(buf) > MAX_LITERAL THEN Panicked("assert")
    ELSE IF Len(buf) = 0
         THEN IF overflow_checks THEN Panicked("overflow") ELSE Wrote(<<I8Byte(-1)>>)
         ELSE Wrote(<<I8Byte(AsI8(Len(buf) - 1))>> \o buf)

\* output_repeating writing -count as the control byte
output_repeating_off(value, count) ==
    IF count > MAX_REPEATED THEN Panicked("assert")
    ELSE Wrote(<<I8Byte(-AsI8(count)), value>>)

\* output_repeating: assert on the count, then control byte -(count - 1) and
\* the value.  count - 1 underflows on 0; the negation overflows on -128.
output_repeating(value, count) ==
    IF count > MAX_REPEATED THEN Panicked("assert")
    ELSE IF count = 0
         THEN IF overflow_checks THEN Panicked("overflow") ELSE Wrote(<<I8Byte(1), value>>)
         ELSE LET c == AsI8(count - 1) IN
              IF c = -128
              THEN IF overflow_checks THEN Panicked("overflow") ELSE Wrote(<<I8Byte(-128), value>>)
              ELSE Wrote(<<I8Byte(-c), value>>)

\* ends_with_same_byte: length of the trailing run of bytes equal to the last
RECURSIVE SameSuffix(_, _)
SameSuffix(s, i) ==
    IF i >= 1 /\ s[i] = s[Len(s)] THEN 1 + SameSuffix(s, i - 1) ELSE 0

\* the trailing run counted up to two bytes only
ends_with_two(slice) ==
    IF Len(slice) = 0 THEN 0
    ELSE IF Len(slice) >= 2 /\ slice[Len(slice) - 1] = slice[Len(slice)] THEN 2
    ELSE 1
ends_with_same_byte(slice) ==
    IF Len(slice) = 0 THEN 0 ELSE SameSuffix(slice, Len(slice))

\* guards of the "full" arms that are off by one, or missing
LiteralFull_short(buf) == Len(buf) = MAX_LITERAL - 1
RepeatFull_short(count) == count = MAX_REPEATED - 1
RepeatFull_never(count) == FALSE

\* the guards of the two "full" match arms of encode_on
LiteralFull(buf) == Len(buf) = MAX_LITERAL
RepeatFull(count) == count = MAX_REPEATED

\* the Literal arm emitting the split-off literal even when it is empty
LiteralPush_always(buf, byte) ==
    LET nb == Append(buf, byte)
        repeated_count == ends_with_same_byte(nb)
    IN  IF repeated_count = MIN_REPEATED
        THEN LET w == output_literal(SubSeq(nb, 1, Len(nb) - repeated_count))
             IN  [st |-> EncRepeat(byte, repeated_count), out |-> w.out, panic |-> w.panic]
        ELSE [st |-> EncLiteral(nb), out |-> <<>>, panic |-> "none"]

\* The Literal arm without guard: push the byte, split off a trailing run of
\* MIN_REPEATED equal bytes.
LiteralPush(buf, byte) ==
    LET nb == Append(buf, byte)
        repeated_count == ends_with_same_byte(nb)
    IN  IF repeated_count = MIN_REPEATED
        THEN LET literal == SubSeq(nb, 1, Len(nb) - repeated_count)
                 w == IF literal # <<>> THEN output_literal(literal) ELSE Wrote(<<>>)
             IN  [st |-> EncRepeat(byte, repeated_count), out |-> w.out, panic |-> w.panic]
        ELSE [st |-> EncLiteral(nb), out |-> <<>>, panic |-> "none"]

\* One iteration of the loop of encode_on: the match on the state.
EncodeByte(st, byte) ==
    CASE st.tag = "Idle" ->
           [st |-> EncLiteral(<<byte>>), out |-> <<>>, panic |-> "none"]
      [] st.tag = "Literal" /\ LiteralFull(st.buf) ->
           LET w == output_literal(st.buf) IN
           [st |-> EncLiteral(<<byte>>), out |-> w.out, panic |-> w.panic]
      [] st.tag = "Literal" /\ ~LiteralFull(st.buf) ->
           LiteralPush(st.buf, byte)
      [] st.tag = "Repeat" /\ RepeatFull(st.count) ->
           LET w == output_repeating(st.byte, st.count) IN
           [st |-> EncLiteral(<<byte>>), out |-> w.out, panic |-> w.panic]
      [] st.tag = "Repeat" /\ ~RepeatFull(st.count) ->
           IF st.byte = byte
           THEN [st |-> EncRepeat(st.byte, st.count + 1), out |-> <<>>, panic |-> "none"]
           ELSE LET w == output_repeating(st.byte, st.count) IN
                [st |-> EncLiteral(<<byte>>), out |-> w.out, panic |-> w.panic]

\* encode_on over input[lo..hi], from the running result r; a panic ends it.
RECURSIVE EncodeRange(_, _, _, _)
EncodeRange(r, input, lo, hi) ==
    IF lo > hi \/ r.panic # "none" THEN r
    ELSE IF lo = hi
         THEN LET s == EncodeByte(r.st, input[lo]) IN
              [st |-> s.st, out |-> r.out \o s.out, panic |-> s.panic]
         ELSE LET mid == (lo + hi) \div 2 IN
              EncodeRange(EncodeRange(r, input, lo, mid), input, mid + 1, hi)

\* Encoder::encode_on(input): new state, bytes written, panic
encode_on(st, input) ==
    EncodeRange([st |-> st, out |-> <<>>, panic |-> "none"], input, 1, Len(input))

\* Encoder::finalize_on: flush the pending run; the buffer of a Literal is
\* advanced to its end, the state is otherwise left as it is.
finalize_on(st) ==
    CASE st.tag = "Idle" -> [st |-> st, out |-> <<>>, panic |-> "none"]
      [] st.tag = "Literal" ->
           LET w == output_literal(st.buf) IN
           [st |-> IF w.panic # "none" THEN st ELSE EncLiteral(<<>>), out |-> w.out, panic |-> w.panic]
      [] st.tag = "Repeat" ->
           LET w == output_repeating(st.byte, st.count) IN
           [st |-> st, out |-> w.out, panic |-> w.panic]

(***************************************************************************)
(* packbits/src/decode.rs                                                  *)
(***************************************************************************)
DecIdle == [tag |-> "Idle", n |-> 0]
DecLiteral(remaining) == [tag |-> "Literal", n |-> remaining]
DecRepeat(count) == [tag |-> "Repeat", n |-> count]

\* the match on the control byte with a repeat count of -byte
DecodeControl_off(b) ==
    LET byte == AsI8(b) IN
    IF byte >= 0 THEN DecLiteral(1 + byte)
    ELSE IF byte >= -127 THEN DecRepeat(-byte)
    ELSE DecIdle

\* the match on the control byte read with get_i8
DecodeControl(b) ==
    LET byte == AsI8(b) IN
    IF byte >= 0 THEN DecLiteral(1 + byte)
    ELSE IF byte >= -127 THEN DecRepeat((-byte) + 1)
    ELSE DecIdle

\* put_bytes(byte, count)
Repeated(byte, count) == [i \in 1..count |-> byte]

\* A Buf is a sequence of contiguous segments (one for a slice or a BytesMut,
\* two for a Chain); the exhausted ones are skipped.
RECURSIVE Remaining(_)
Remaining(segs) ==
    IF segs = <<>> THEN <<>>
    ELSE IF Head(segs) = <<>> THEN Remaining(Tail(segs)) ELSE segs

\* Decoder::decode_on: loop while the input has bytes
RECURSIVE decode_on(_, _, _)
decode_on(st, out, segs) ==
    LET s == Remaining(segs) IN
    IF s = <<>> THEN [st |-> st, out |-> out]
    ELSE LET chunk == Head(s)
             rest == Tail(s)
         IN  CASE st.tag = "Idle" ->
                    decode_on(DecodeControl(chunk[1]), out, <<Tail(chunk)>> \o rest)
               [] st.tag = "Repeat" ->
                    decode_on(DecIdle, out \o Repeated(chunk[1], st.n),
                              <<Tail(chunk)>> \o rest)
               [] st.tag = "Literal" ->
                    LET size == Min(Len(chunk), st.n)
                        remaining == st.n - size
                    IN  decode_on(IF remaining = 0 THEN DecIdle ELSE DecLiteral(remaining),
                                  out \o SubSeq(chunk, 1, size),
                                  <<SubSeq(chunk, size + 1, Len(chunk))>> \o rest)

\* Decoder::decode forgetting the run it was left in by the previous call
Decoder_decode_reset(st, chunk) == decode_on(DecIdle, <<>>, <<chunk>>)

\* Decoder::decode(input) on a contiguous input: new state, bytes returned
Decoder_decode(st, chunk) == decode_on(st, <<>>, <<chunk>>)

\* Decoder::finalize reporting a dangling literal without its count
DecoderFinalize_nocount(st) ==
    CASE st.tag = "Idle" -> [kind |-> "Ok", n |-> 0]
      [] st.tag = "Repeat" -> [kind |-> "DanglingRepeated", n |-> 0]
      [] st.tag = "Literal" -> [kind |-> "DanglingLiteral", n |-> 0]

\* Decoder::finalize
DecoderFinalize(st) ==
    CASE st.tag = "Idle" -> [kind |-> "Ok", n |-> 0]
      [] st.tag = "Repeat" -> [kind |-> "DanglingRepeated", n |-> 0]
      [] st.tag = "Literal" -> [kind |-> "DanglingLiteral", n |-> st.n]

NoResult == [kind |-> "none", n |-> 0]

(***************************************************************************)
(* src/mohawk.rs: the headers and the file table.                          *)
(***************************************************************************)
NoError == [kind |-> "none", arg |-> 0]
Err(kind) == [kind |-> kind, arg |-> 0]
ErrWith(kind, arg) == [kind |-> kind, arg |-> arg]
\* an arithmetic overflow check failed: the process aborts
Panic == [kind |-> "panic", arg |-> 0]

\* The result of a u16 operation whose exact value is x: a panic with
\* overflow checks, the wrapped value without.
ArithU16(x) ==
    IF x >= 2^16
    THEN IF overflow_checks THEN [panic |-> TRUE, val |-> 0]
         ELSE [panic |-> FALSE, val |-> x % 2^16]
    ELSE [panic |-> FALSE, val |-> x]

\* A u32 is kept as its two 16-bit halves <<high, low>>.
U32(n) == <<n \div 2^16, n % 2^16>>
FitsU16(x) == x[1] = 0

\* x + k in u32, for a small k
AddU32(x, k) ==
    LET lo == x[2] + k
        hi == x[1] + (lo \div 2^16)
    IN  IF hi >= 2^16
        THEN IF overflow_checks THEN [panic |-> TRUE, val |-> U32(0)]
             ELSE [panic |-> FALSE, val |-> <<hi % 2^16, lo % 2^16>>]
        ELSE [panic |-> FALSE, val |-> <<hi, lo % 2^16>>]

\* the first k fields of the two headers can be read before the file ends:
\* 1 IFF magic, 2 IFF size, 3 RSRC magic, 4 version, 5 compaction,
\* 6 file_size, 7 resource_dir_offset, 8 file table offset, 9 file table size
Readable(f, k) == k <= f.nfields

\* the `size + 8` of parse_iff_header, in u32
iff_total(size) == AddU32(size, 8)

\* parse_iff_header: the error, or the total file size
parse_iff_header(f) ==
    IF ~Readable(f, 1) THEN [err |-> Err("IO"), total |-> U32(0)]
    ELSE IF f.iff_magic # "MHWK" THEN [err |-> Err("IFFSignature"), total |-> U32(0)]
    ELSE IF ~Readable(f, 2) THEN [err |-> Err("IO"), total |-> U32(0)]
    ELSE LET t == iff_total(f.iff_size) IN
         IF t.panic THEN [err |-> Panic, total |-> U32(0)]
         ELSE [err |-> NoError, total |-> t.val]

NoRSRCHeader ==
    [resource_dir_offset |-> U32(0), file_table_offset_in_resource_dir |-> 0,
     file_table_size |-> 0]

\* parse_rsrc_header: the error, or the RSRCHeader made of the three fields
\* that follow the validated ones
parse_rsrc_header(f, total, trailing) ==
    IF ~Readable(f, 3) THEN [err |-> Err("IO"), hdr |-> NoRSRCHeader]
    ELSE IF f.rsrc_magic # "RSRC" THEN [err |-> Err("RSRCSignature"), hdr |-> NoRSRCHeader]
    ELSE IF ~Readable(f, 4) THEN [err |-> Err("IO"), hdr |-> NoRSRCHeader]
    ELSE IF f.version # 256
         THEN [err |-> ErrWith("UnsupportedVersion", f.version), hdr |-> NoRSRCHeader]
    ELSE IF ~Readable(f, 5) THEN [err |-> Err("IO"), hdr |-> NoRSRCHeader]
    ELSE IF f.compaction # 1
         THEN [err |-> ErrWith("UnsupportedCompaction", f.compaction), hdr |-> NoRSRCHeader]
    ELSE IF ~Readable(f, 6) THEN [err |-> Err("IO"), hdr |-> NoRSRCHeader]
    ELSE IF f.file_size # total THEN [err |-> Err("UncoherentFileSize"), hdr |-> NoRSRCHeader]
    ELSE IF ~Readable(f, 9) THEN [err |-> Err("IO"), hdr |-> NoRSRCHeader]
    ELSE [err |-> NoError, hdr |-> trailing]

\* the File made of one raw entry of the file table: the size is the three
\* high bytes of size_and_flag, the flag its low byte
FileOf(raw) ==
    [offset |-> raw.offset,
     size |-> raw.size_and_flag[1] * 256 + raw.size_and_flag[2] \div 256,
     flag |-> raw.size_and_flag[2] % 256,
     unknown |-> raw.unknown]

\* `4 + file_entry_count * BYTES_PER_ENTRY`, in u16
file_table_bytes(count) ==
    LET m == ArithU16(count * BYTES_PER_ENTRY) IN
    IF m.panic THEN m ELSE ArithU16(4 + m.val)

\* what stands for the count when the file ends before it
NoCount == <<-1, -1>>

\* parse_file_table: count is the u32 read (or NoCount), table the raw entries
\* the file holds after it.  `entered` tells that the entries were read.
parse_file_table(expected_size, count, table) ==
    IF count = NoCount THEN [err |-> Err("IO"), files |-> <<>>, entered |-> FALSE]
    ELSE IF ~FitsU16(count)
         THEN [err |-> Err("TooBigFileTable"), files |-> <<>>, entered |-> FALSE]
    ELSE LET file_entry_count == count[2]
             bytes == file_table_bytes(file_entry_count)
         IN
         IF bytes.panic THEN [err |-> Panic, files |-> <<>>, entered |-> FALSE]
         ELSE IF bytes.val # expected_size
              THEN [err |-> Err("UncoherentFileTableSize"), files |-> <<>>,
                    entered |-> FALSE]
         ELSE IF Len(table) < file_entry_count
              THEN [err |-> Err("IO"), files |-> <<>>, entered |-> TRUE]
         ELSE [err |-> NoError,
               files |-> [file_id \in 0..(file_entry_count - 1) |->
                            FileOf(table[file_id + 1])],
               entered |-> TRUE]

\* the state of with_reader before anything is read
NoFile ==
    [iff_magic |-> "", iff_size |-> U32(0), rsrc_magic |-> "", version |-> 0,
     compaction |-> 0, file_size |-> U32(0), nfields |-> 0]

MohawkFresh ==
    /\ total_file_size = U32(0) /\ rsrc = NoRSRCHeader /\ name_list_offset = 0
    /\ type_tables = <<>> /\ file_count = U32(0) /\ files = <<>>
    /\ mres = NoError /\ mlog = <<>>
    /\ types_tables = <<>> /\ types = <<>>

\* a resource directory without any table
NoDirectory == [resource_tables |-> <<>>, name_tables |-> <<>>, name_list |-> <<>>]

MohawkParked == file = NoFile /\ mpc = "parked" /\ dir = NoDirectory /\ MohawkFresh

(***************************************************************************)
(* Bounded sub-streams and the PICT parser: nothing taken, nothing parsed. *)
(***************************************************************************)
TakeParked == base = 0 /\ takes = <<>> /\ got = 0 /\ last = "none"
\* no operation was parsed, no result was returned
NoOutcome == [res |-> "none", kind |-> "none", arg |-> 0]
\* no operation was parsed yet
NotParsed == [res |-> "none", kind |-> "none", arg |-> 0, consumed |-> 0, data |-> <<>>]
\* `ret` of PICT::parse is None
NoImage == [kind |-> "none", width |-> 0, height |-> 0, data |-> <<>>]
\* no text is being decoded
NoText == [count |-> 0, read |-> 0, len |-> 0, capacity |-> 0, turns |-> 0]
PictParked ==
    /\ ppc = "parked" /\ header = "unread" /\ more = FALSE
    /\ opin = <<>> /\ opout = NotParsed
    /\ seen = <<>> /\ nops = 0 /\ found = NoImage /\ pres = NoOutcome
    /\ decoding = NoText
StreamParked == TakeParked /\ PictParked

(***************************************************************************)
(* src/mohawk/reader.rs: the state of the readers and of the handler.      *)
(***************************************************************************)
\* no MohawkReader was opened
NoHandler == [pos |-> 0, cursor |-> 0, status |-> "none"]
ReaderParked ==
    /\ readers = <<>> /\ queue = <<>> /\ handler = NoHandler
    /\ StreamParked

(***************************************************************************)
(* Inputs of the encoder.                                                  *)
(***************************************************************************)
DataBytes == {97, 128}
Other(b) == CHOOSE c \in DataBytes : c # b

\* n copies of b
Run(b, n) == [i \in 1..n |-> b]
\* b c b c ...: no two neighbours equal
Alt(b, n) == [i \in 1..n |-> IF i % 2 = 1 THEN b ELSE Other(b)]
\* b b c c b b ...: pairs of equal bytes, never three
Pairs(b, n) == [i \in 1..n |-> IF ((i - 1) \div 2) % 2 = 0 THEN b ELSE Other(b)]

LongLens == UNION {(m * MAX_LITERAL - Slack)..(m * MAX_LITERAL + Slack) : m \in {1, 2}}
LongChunks ==
    {Run(b, n) : b \in DataBytes, n \in LongLens}
    \cup {Alt(b, n) : b \in DataBytes, n \in LongLens}
    \cup {Pairs(b, n) : b \in DataBytes, n \in LongLens}

(***************************************************************************)
(* The encoder and the round trip (packbits/src/lib.rs, tests::roundtrip). *)
(***************************************************************************)
EncParked ==
    /\ enc = EncIdle /\ fed = <<>> /\ encoded = <<>> /\ tail = <<>>
    /\ epanic = "none" /\ ephase = "parked" /\ nshort = 0 /\ nlong = 0
    /\ fed_after = <<>> /\ out_after = <<>>

DecFresh ==
    /\ dec = DecIdle /\ din = <<>> /\ dpos = 0 /\ decoded = <<>>
    /\ dcut = {} /\ dres = NoResult

InitEnc ==
    /\ overflow_checks \in BOOLEAN
    /\ enc = EncIdle /\ fed = <<>> /\ encoded = <<>> /\ tail = <<>>
    /\ epanic = "none" /\ ephase = "encoding" /\ nshort = 0 /\ nlong = 0
    /\ fed_after = <<>> /\ out_after = <<>>
    /\ DecFresh
    /\ MohawkParked
    /\ ReaderParked

\* Encoder::encode(chunk)
Encode(chunk) ==
    /\ ephase = "encoding" /\ epanic = "none"
    /\ LET r == encode_on(enc, chunk) IN
       /\ enc' = r.st
       /\ encoded' = encoded \o r.out
       /\ epanic' = r.panic
    /\ fed' = fed \o chunk
    /\ UNCHANGED <<svars, rvars, mvars, overflow_checks, tail, ephase, dvars, fed_after,
                   out_after>>

EncodeShort ==
    /\ nshort < MaxShort
    /\ \E b \in DataBytes : Encode(<<b>>)
    /\ nshort' = nshort + 1
    /\ nlong' = nlong

EncodeLong ==
    /\ nlong = 0
    /\ \E chunk \in LongChunks : Encode(chunk)
    /\ nlong' = nlong + 1
    /\ nshort' = nshort

\* Encoder::finalize()
EncFinalize ==
    /\ ephase = "encoding" /\ epanic = "none"
    /\ LET r == finalize_on(enc) IN
       /\ enc' = r.st
       /\ tail' = r.out
       /\ epanic' = r.panic
    /\ ephase' = "finalized"
    /\ UNCHANGED <<svars, rvars, mvars, overflow_checks, fed, encoded, nshort, nlong, dvars,
                   fed_after, out_after>>

\* decoder.decode(encoded.chain(finalized)) of tests::roundtrip
RoundtripDecode ==
    /\ ephase = "finalized" /\ epanic = "none"
    /\ LET r == decode_on(dec, <<>>, <<encoded, tail>>) IN
       /\ dec' = r.st
       /\ decoded' = r.out
    /\ din' = encoded \o tail
    /\ dpos' = Len(encoded) + Len(tail)
    /\ ephase' = "decoded"
    /\ UNCHANGED <<svars, rvars, mvars, overflow_checks, enc, fed, encoded, tail, epanic, nshort, nlong,
                   fed_after, out_after,
                   dcut, dres>>

\* decoder.finalize() of tests::roundtrip
RoundtripFinalize ==
    /\ ephase = "decoded"
    /\ dres' = DecoderFinalize(dec)
    /\ ephase' = "done"
    /\ UNCHANGED <<svars, rvars, mvars, overflow_checks, enc, fed, encoded, tail, epanic, nshort, nlong,
                   fed_after, out_after,
                   dec, din, dpos, decoded, dcut>>

\* Encoder::encode of one byte on the encoder that was finalized
EncodeAfter ==
    /\ ephase = "finalized" /\ epanic = "none"
    /\ Len(fed_after) < MaxAfter
    /\ \E b \in DataBytes :
        /\ enc' = encode_on(enc, <<b>>).st
        /\ out_after' = out_after \o encode_on(enc, <<b>>).out
        /\ epanic' = encode_on(enc, <<b>>).panic
        /\ fed_after' = Append(fed_after, b)
    /\ UNCHANGED <<svars, rvars, mvars, overflow_checks, fed, encoded, tail, ephase, nshort,
                   nlong, dvars>>

\* Encoder::finalize on the encoder that was finalized
FinalizeAgain ==
    /\ ephase = "finalized" /\ epanic = "none"
    /\ enc' = finalize_on(enc).st
    /\ out_after' = out_after \o finalize_on(enc).out
    /\ epanic' = finalize_on(enc).panic
    /\ ephase' = "finalized again"
    /\ UNCHANGED <<svars, rvars, mvars, overflow_checks, fed, encoded, tail, nshort, nlong,
                   fed_after, dvars>>

NextReuse == EncodeShort \/ EncodeLong \/ EncFinalize \/ EncodeAfter \/ FinalizeAgain

SpecReuse == InitEnc /\ [][NextReuse]_vars

NextEnc == EncodeShort \/ EncodeLong \/ EncFinalize \/ RoundtripDecode \/ RoundtripFinalize

SpecEnc == InitEnc /\ [][NextEnc]_vars

(***************************************************************************)
(* Claims about the encoder and the round trip, under SpecEnc.             *)
(***************************************************************************)
Finalized == ephase \in {"finalized", "decoded", "done"} /\ epanic = "none"
Emitted == encoded \o tail

\* C1: every byte sequence D, the empty one included, fed to a fresh Encoder
\* (encode, then finalize) and the result to a fresh Decoder comes back as
\* exactly D, and Decoder.finalize returns Ok; no encoder call panics.
C1_RoundTrip ==
    /\ ephase \in {"encoding", "finalized"} => epanic = "none"
    /\ ephase \in {"decoded", "done"} => decoded = fed
    /\ ephase = "done" => dres.kind = "Ok"

\* a round trip of more than two maximal runs holding both bytes
C1_Witness ==
    /\ ephase = "done" /\ dres.kind = "Ok"
    /\ Len(fed) > 2 * MAX_LITERAL
    /\ decoded = fed
    /\ \E i \in 1..Len(fed) : fed[i] # fed[1]

IsRunOf(s, b) == s # <<>> /\ \A i \in 1..Len(s) : s[i] = b

\* the encoding C5 states for n >= 1 copies of b
RECURSIVE C5_Expected(_, _)
C5_Expected(b, n) ==
    IF n >= 128 THEN <<129, b>> \o C5_Expected(b, n - 128)
    ELSE IF n = 0 THEN <<>>
    ELSE IF n <= 2 THEN <<n - 1>> \o Run(b, n)
    ELSE <<257 - n, b>>

\* C5: n >= 1 copies of one byte b are encoded as floor(n/128) runs `81 b`,
\* then for r = n mod 128: nothing if r = 0, the literal run (r-1, r copies)
\* if r is 1 or 2, the repeat run (257-r, b) if r >= 3.
C5_RepeatedByte ==
    (Finalized /\ fed # <<>> /\ IsRunOf(fed, fed[1]))
        => Emitted = C5_Expected(fed[1], Len(fed))

\* two maximal runs followed by a repeat run of the remainder
C5_Witness ==
    /\ Finalized /\ fed # <<>> /\ IsRunOf(fed, fed[1])
    /\ Len(fed) >= 2 * MAX_REPEATED + MIN_REPEATED
    /\ Emitted = <<129, fed[1], 129, fed[1], 257 - (Len(fed) - 256), fed[1]>>

NoThreeEqual(s) ==
    \A i \in 1..(Len(s) - 2) : ~(s[i] = s[i + 1] /\ s[i + 1] = s[i + 2])

\* the encoding C6 states: literal runs of 128 bytes, then the rest
RECURSIVE C6_Expected(_)
C6_Expected(s) ==
    IF s = <<>> THEN <<>>
    ELSE IF Len(s) >= 128
         THEN <<127>> \o SubSeq(s, 1, 128) \o C6_Expected(SubSeq(s, 129, Len(s)))
         ELSE <<Len(s) - 1>> \o s

\* C6: an input without three consecutive equal bytes is encoded as literal
\* runs only: each full block of 128 bytes as 7F and the bytes, the rest as
\* (length - 1) and the bytes; the empty input as the empty output.
C6_LiteralOnly ==
    (Finalized /\ NoThreeEqual(fed)) => Emitted = C6_Expected(fed)

\* two full blocks and a rest, with pairs of equal bytes in the input
C6_Witness ==
    /\ Finalized /\ NoThreeEqual(fed)
    /\ Len(fed) > 2 * MAX_LITERAL
    /\ \E i \in 1..(Len(fed) - 1) : fed[i] = fed[i + 1]
    /\ Emitted[1] = 127 /\ Emitted[130] = 127
    /\ Len(Emitted) = Len(fed) + 3

\* the step is one encode call of a single byte that did not panic
ByteStep == ephase = "encoding" /\ Len(fed') = Len(fed) + 1 /\ epanic' = "none"
NewByte == fed'[Len(fed')]
LastThreeEqual(s) ==
    Len(s) >= 3 /\ s[Len(s)] = s[Len(s) - 1] /\ s[Len(s)] = s[Len(s) - 2]
RepeatRun(st) == <<257 - st.count, st.byte>>

C7_LiteralStep ==
    (ByteStep /\ enc.tag = "Literal" /\ Len(enc.buf) < MAX_LITERAL) =>
        LET nb == Append(enc.buf, NewByte) IN
        IF LastThreeEqual(nb)
        THEN /\ enc' = EncRepeat(NewByte, 3)
             /\ encoded' = encoded \o
                  (IF Len(nb) > 3
                   THEN <<Len(nb) - 4>> \o SubSeq(nb, 1, Len(nb) - 3)
                   ELSE <<>>)
        ELSE enc' = EncLiteral(nb) /\ encoded' = encoded

C7_RepeatStep ==
    (ByteStep /\ enc.tag = "Repeat") =>
        IF NewByte # enc.byte \/ enc.count = 128
        THEN encoded' = encoded \o RepeatRun(enc) /\ enc' = EncLiteral(<<NewByte>>)
        ELSE encoded' = encoded /\ enc' = EncRepeat(enc.byte, enc.count + 1)

C7_FinalizeStep ==
    (ephase = "encoding" /\ ephase' = "finalized" /\ enc.tag = "Repeat") =>
        tail' = RepeatRun(enc) /\ epanic' = "none"

\* C7: while a literal is accumulated, as soon as its last three bytes are
\* equal the bytes before them are emitted as one literal run (only when there
\* are any) and the encoder continues as a repeat run of count 3; a repeat run
\* is emitted when a different byte arrives, when its count is 128 and another
\* byte arrives, or at finalize, and at no other step.
C7_SplitAndFlush == [][C7_LiteralStep /\ C7_RepeatStep /\ C7_FinalizeStep]_vars

\* a split with a non-empty literal prefix has just happened
C7_Witness ==
    /\ ephase = "encoding"
    /\ enc.tag = "Repeat" /\ enc.count = MIN_REPEATED
    /\ Len(fed) > MAX_LITERAL + MIN_REPEATED
    /\ LastThreeEqual(fed)
    /\ fed[Len(fed) - 3] # fed[Len(fed)]
    /\ encoded[Len(encoded)] = fed[Len(fed) - 3]
    /\ nshort = MaxShort

\* C8: after any sequence of encode calls the encoder is Idle, Literal with at
\* most 128 buffered bytes or Repeat with a count of at most 128, and no size
\* assertion of output_literal or output_repeating has failed.
C8_EncoderBounded ==
    /\ enc.tag \in {"Idle", "Literal", "Repeat"}
    /\ enc.tag = "Literal" => Len(enc.buf) <= MAX_LITERAL
    /\ enc.tag = "Repeat" => enc.count <= MAX_REPEATED
    /\ epanic # "assert"

\* a second repeat run has reached the maximal count
C8_Witness ==
    /\ ephase = "encoding"
    /\ enc.tag = "Repeat" /\ enc.count = MAX_REPEATED
    /\ Len(fed) > 2 * MAX_REPEATED

(***************************************************************************)
(* Inputs of the decoder, and the decoder fed in cuts.                     *)
(***************************************************************************)
DecAlphabet == {0, 1, 128, 254, 255}
PayloadBytes == <<128, 0, 255, 97>>
Payload(n) == [i \in 1..n |-> PayloadBytes[((i - 1) % 4) + 1]]

\* one complete run with control byte c
OneRun(c) ==
    <<c>> \o (IF c < 128 THEN Payload(c + 1) ELSE IF c = 128 THEN <<>> ELSE <<97>>)

EdgeControls == {0, 1, 127, 128, 129, 254, 255}

RECURSIVE Strings(_, _)
Strings(alphabet, n) ==
    IF n = 0 THEN {<<>>}
    ELSE LET shorter == Strings(alphabet, n - 1) IN
         shorter \cup {Append(s, b) : s \in {t \in shorter : Len(t) = n - 1}, b \in alphabet}

DecInputs ==
    Strings(DecAlphabet, MaxDecLen)
    \cup {OneRun(c) : c \in 0..255}
    \cup {OneRun(c) \o OneRun(d) : c \in EdgeControls, d \in EdgeControls}

InitDec ==
    /\ overflow_checks = TRUE
    /\ EncParked
    /\ dec = DecIdle /\ dpos = 0 /\ decoded = <<>> /\ dcut = {} /\ dres = NoResult
    /\ din \in DecInputs
    /\ MohawkParked
    /\ ReaderParked

\* where a call that consumed chunk and left the decoder in st has ended
CutKind(before, chunk, st) ==
    IF st.tag = "Idle" THEN {}
    ELSE IF st.tag = "Repeat" THEN {"control"}
    ELSE IF Decoder_decode(before, SubSeq(chunk, 1, Len(chunk) - 1)).st = DecIdle
         THEN {"control"} ELSE {"literal"}

\* Decoder::decode on the next k bytes of the input
DecDecode ==
    /\ ephase = "parked" /\ dres = NoResult
    /\ dpos < Len(din)
    /\ \E k \in (1..MaxCut) \cup {Len(din) - dpos} :
        /\ dpos + k <= Len(din)
        /\ LET chunk == SubSeq(din, dpos + 1, dpos + k)
               r == Decoder_decode(dec, chunk)
           IN  /\ dec' = r.st
               /\ decoded' = decoded \o r.out
               /\ dcut' = dcut \cup CutKind(dec, chunk, r.st)
        /\ dpos' = dpos + k
    /\ UNCHANGED <<svars, rvars, mvars, overflow_checks, pbvars, din, dres>>

\* Decoder::finalize, after any number of decode calls
DecFinalize ==
    /\ ephase = "parked" /\ dres = NoResult
    /\ dres' = DecoderFinalize(dec)
    /\ UNCHANGED <<svars, rvars, mvars, overflow_checks, pbvars, dec, din, dpos, decoded, dcut>>

NextDec == DecDecode \/ DecFinalize

SpecDec == InitDec /\ [][NextDec]_vars

(***************************************************************************)
(* Claims about the decoder, under SpecDec.                                *)
(***************************************************************************)
Signed(b) == IF b >= 128 THEN b - 256 ELSE b

\* The format read run by run: the bytes the complete runs of s stand for and
\* the bytes of a cut literal, with the run that s ends in, if any, and the
\* number of literal bytes still missing.
RECURSIVE RunsOf(_, _)
RunsOf(s, out) ==
    IF s = <<>> THEN [out |-> out, pending |-> "none", missing |-> 0]
    ELSE LET n == Signed(s[1])
             have == Len(s) - 1
         IN  IF n = -128 THEN RunsOf(Tail(s), out)
             ELSE IF n >= 0
                  THEN IF have >= n + 1
                       THEN RunsOf(SubSeq(s, n + 3, Len(s)), out \o SubSeq(s, 2, n + 2))
                       ELSE [out |-> out \o Tail(s), pending |-> "literal",
                             missing |-> n + 1 - have]
                  ELSE IF have >= 1
                       THEN RunsOf(SubSeq(s, 3, Len(s)), out \o [i \in 1..(1 - n) |-> s[2]])
                       ELSE [out |-> out, pending |-> "repeat", missing |-> 0]

Consumed == SubSeq(din, 1, dpos)

\* C2: from Idle the next byte n is a signed control byte: 0..127 copies the
\* following n+1 bytes, -1..-127 emits the following byte -n+1 times, -128
\* emits nothing; after each completed run the decoder is Idle again.
C2_ControlByte ==
    ephase = "parked" =>
        LET r == RunsOf(Consumed, <<>>) IN
        /\ decoded = r.out
        /\ r.pending = "none" => dec = DecIdle
        /\ r.pending = "literal" => dec = DecLiteral(r.missing)
        /\ r.pending = "repeat" => dec.tag = "Repeat"

\* a maximal repeat run and a maximal literal run have been decoded
C2_Witness ==
    /\ ephase = "parked" /\ dpos = Len(din) /\ dec = DecIdle
    /\ din = OneRun(129) \o OneRun(127)
    /\ decoded = Run(97, 128) \o Payload(128)

\* C3: however the input is cut into consecutive chunks, the outputs of the
\* successive decode calls, concatenated, and the decoder state at the end are
\* those of one decode call on the whole input.
C3_Chunking ==
    ephase = "parked" =>
        [st |-> dec, out |-> decoded] = decode_on(DecIdle, <<>>, <<Consumed>>)

\* calls have ended right after a control byte and inside a literal, and the
\* decoder went on to the end of a two-run input
C3_Witness ==
    /\ ephase = "parked" /\ dpos = Len(din) /\ dpos > MaxCut + 2
    /\ dcut = {"control", "literal"}
    /\ dec = DecIdle /\ Len(decoded) > MAX_LITERAL

IffSizes == {U32(0), U32(92), <<2^16 - 1, 2^16 - 8>>, <<2^16 - 1, 2^16 - 1>>}

Headers ==
    [iff_magic : {"MHWK", "RSRC"},
     iff_size : IffSizes,
     rsrc_magic : {"RSRC", "MHWK"},
     version : {256, 1},
     compaction : {1, 256},
     file_size : {U32(8), U32(100), U32(0), U32(7)},
     nfields : 0..9]

TypeEntries ==
    {[tag |-> "PICT", resource_table_offset_in_resource_dir |-> 40,
      name_table_offset_in_resource_dir |-> 60],
     [tag |-> "MSND", resource_table_offset_in_resource_dir |-> 20,
      name_table_offset_in_resource_dir |-> 70]}

RECURSIVE SeqsUpTo(_, _)
SeqsUpTo(S, n) ==
    IF n = 0 THEN {<<>>}
    ELSE LET shorter == SeqsUpTo(S, n - 1) IN
         shorter \cup {Append(q, x) : q \in {t \in shorter : Len(t) = n - 1}, x \in S}

RawEntries ==
    {[offset |-> U32(28), size_and_flag |-> U32(2 * 256 + 1), unknown |-> 0],
     [offset |-> U32(90), size_and_flag |-> U32(10 * 256), unknown |-> 7]}

\* the largest count whose table size fits in a u16, and the smallest that
\* does not
LastFit == (2^16 - 1 - 4) \div BYTES_PER_ENTRY
FirstWrap == LastFit + 1

FileCounts ==
    {U32(n) : n \in (0..MaxFiles) \cup {LastFit, FirstWrap, 2^16 - 1, 2^16}}
    \cup {<<2^16 - 1, 2^16 - 1>>}
FileTableSizes ==
    {0} \cup {(4 + c[2] * BYTES_PER_ENTRY) % 2^16 : c \in {n \in FileCounts : FitsU16(n)}}

\* the file tables a file may hold: short ones, and one long enough for the
\* smallest count that wraps
FileTables ==
    SeqsUpTo(RawEntries, MaxFiles)
    \cup {[i \in 1..FirstWrap |-> CHOOSE r \in RawEntries : r.offset = U32(28)]}

InitMohawk ==
    /\ overflow_checks \in BOOLEAN
    /\ EncParked /\ DecFresh /\ ReaderParked
    /\ file \in Headers
    /\ dir = NoDirectory
    /\ mpc = "iff"
    /\ MohawkFresh

Fail(err) ==
    /\ mres' = err
    /\ mpc' = IF err = Panic THEN "panicked" ELSE "failed"

\* let total_file_size = parse_iff_header(&mut reader).await?
ParseIffHeader ==
    /\ mpc = "iff"
    /\ LET r == parse_iff_header(file) IN
       IF r.err # NoError
       THEN Fail(r.err) /\ UNCHANGED total_file_size
       ELSE mpc' = "rsrc" /\ total_file_size' = r.total /\ UNCHANGED mres
    /\ mlog' = Append(mlog, "iff")
    /\ UNCHANGED <<svars, rvars, overflow_checks, pbvars, dvars, file, rsrc, name_list_offset,
                   type_tables, file_count, files, cvars>>

\* let RSRCHeader { .. } = parse_rsrc_header(&mut reader, total_file_size).await?
ParseRsrcHeader ==
    /\ mpc = "rsrc"
    /\ \E fts \in FileTableSizes :
        LET r == parse_rsrc_header(file, total_file_size,
                    [resource_dir_offset |-> U32(28),
                     file_table_offset_in_resource_dir |-> 100,
                     file_table_size |-> fts])
        IN  IF r.err # NoError
            THEN Fail(r.err) /\ UNCHANGED rsrc
            ELSE mpc' = "dir" /\ rsrc' = r.hdr /\ UNCHANGED mres
    /\ mlog' = Append(mlog, "rsrc")
    /\ UNCHANGED <<svars, rvars, overflow_checks, pbvars, dvars, file, total_file_size,
                   name_list_offset, type_tables, file_count, files, cvars>>

\* seek to the resource directory, read name_list_offset_in_resource_dir and
\* parse_type_table: the entries in the order of the file
ReadDirectory ==
    /\ mpc = "dir"
    /\ \E eof \in BOOLEAN, tt \in SeqsUpTo(TypeEntries, MaxTypes) :
        IF eof
        THEN Fail(Err("IO")) /\ UNCHANGED <<name_list_offset, type_tables>>
        ELSE /\ mpc' = "file_table"
             /\ name_list_offset' = 80
             /\ type_tables' = tt
             /\ UNCHANGED mres
    /\ mlog' = Append(mlog, "type_table")
    /\ UNCHANGED <<svars, rvars, overflow_checks, pbvars, dvars, file, total_file_size, rsrc,
                   file_count, files, cvars>>

\* seek to the file table and parse_file_table(&mut reader, file_table_size),
\* for a file that holds one of the counts and one of the tables
ParseFileTableOf(counts, tables) ==
    /\ mpc = "file_table"
    /\ \E count \in counts, table \in tables :
        LET r == parse_file_table(rsrc.file_table_size, count, table) IN
        /\ file_count' = count
        /\ IF r.err # NoError
           THEN Fail(r.err) /\ UNCHANGED files
           ELSE mpc' = "types" /\ files' = r.files /\ UNCHANGED mres
        /\ mlog' = mlog \o <<"file_count">>
                        \o (IF r.entered THEN <<"file_entries">> ELSE <<>>)
    /\ UNCHANGED <<svars, rvars, overflow_checks, pbvars, dvars, file, total_file_size, rsrc,
                   name_list_offset, type_tables, cvars>>

ParseFileTable == ParseFileTableOf(FileCounts \cup {NoCount}, FileTables)

NextMohawk == ParseIffHeader \/ ParseRsrcHeader \/ ReadDirectory \/ ParseFileTable

SpecMohawk == InitMohawk /\ [][NextMohawk]_vars

(***************************************************************************)
(* Claims about the Mohawk headers and the file table, under SpecMohawk.   *)
(***************************************************************************)
HeaderErrors ==
    {"IFFSignature", "RSRCSignature", "UnsupportedVersion", "UnsupportedCompaction",
     "UncoherentFileSize"}

\* y = x + 8 in the integers, for two u32
IsPlus8(y, x) ==
    LET lo == x[2] + 8 IN
    y[2] = lo % 2^16 /\ y[1] = x[1] + (lo \div 2^16)

\* the checks of the two headers in their order, with the field each one
\* reads last: the first one the file fails, or NoError
FirstFailing(f) ==
    IF f.iff_magic # "MHWK" THEN [err |-> Err("IFFSignature"), field |-> 1]
    ELSE IF f.rsrc_magic # "RSRC" THEN [err |-> Err("RSRCSignature"), field |-> 3]
    ELSE IF f.version # 256
         THEN [err |-> ErrWith("UnsupportedVersion", f.version), field |-> 4]
    ELSE IF f.compaction # 1
         THEN [err |-> ErrWith("UnsupportedCompaction", f.compaction), field |-> 5]
    ELSE IF ~IsPlus8(f.file_size, f.iff_size)
         THEN [err |-> Err("UncoherentFileSize"), field |-> 6]
    ELSE [err |-> NoError, field |-> 9]

HeadersParsed == mpc \notin {"parked", "iff", "rsrc"}

\* C9: the headers are validated in a fixed order and the first failing check
\* gives the error: IFFSignature, RSRCSignature, UnsupportedVersion(version),
\* UnsupportedCompaction(compaction), then UncoherentFileSize when the RSRC
\* file_size differs from the IFF size + 8; no index table is read after a
\* failed check.  Stated for the files that hold the field that fails.
C9_HeaderOrder ==
    (HeadersParsed \/ mpc \in {"failed", "panicked"}) =>
        LET first == FirstFailing(file) IN
        /\ (first.err # NoError /\ Readable(file, first.field)) =>
              /\ mres = first.err
              /\ \A i \in 1..Len(mlog) : mlog[i] \in {"iff", "rsrc"}
        /\ mres.kind \in HeaderErrors => mres = first.err

\* C9 for the files whose IFF size leaves room for the 8 bytes added to it
C9_HeaderOrderInRange ==
    file.iff_size \in {U32(0), U32(92)} => C9_HeaderOrder

\* C10: a file_count that does not fit in 16 bits fails with TooBigFileTable;
\* otherwise the parse goes on to the entries exactly when file_table_size
\* equals 4 + file_count * 10 computed without wrap-around, and fails with
\* UncoherentFileTableSize for every other file_count in 0..65535.
C10_FileTableSize ==
    (Len(mlog) > 0 /\ mlog[Len(mlog)] \in {"file_count", "file_entries"}
        /\ file_count # NoCount) =>
        IF ~FitsU16(file_count) THEN mres = Err("TooBigFileTable")
        ELSE IF rsrc.file_table_size = 4 + file_count[2] * 10
             THEN mlog[Len(mlog)] = "file_entries"
             ELSE mres = Err("UncoherentFileTableSize")

\* C10 for the counts whose table size fits in 16 bits
C10_FileTableSizeInRange ==
    (file_count # NoCount /\ (FitsU16(file_count) => file_count[2] <= LastFit))
        => C10_FileTableSize

(***************************************************************************)
(* src/mohawk.rs: the resource tables, the name tables and the join.       *)
(***************************************************************************)
\* AsyncBufReadExt::read_until: the bytes from position p (counted from 0) up
\* to and including the first delim, or up to the end of the bytes
read_until(bytes, p, delim) ==
    LET hits == {i \in (p + 1)..Len(bytes) : bytes[i] = delim} IN
    IF hits = {} THEN SubSeq(bytes, p + 1, Len(bytes))
    ELSE SubSeq(bytes, p + 1, CHOOSE i \in hits : \A j \in hits : i <= j)

\* a continuation byte of UTF-8
Utf8Cont(s, i) == i <= Len(s) /\ s[i] \in 128..191

\* String::from_utf8 accepts the bytes from index i on
RECURSIVE Utf8From(_, _)
Utf8From(s, i) ==
    IF i > Len(s) THEN TRUE
    ELSE LET b == s[i] IN
         IF b < 128 THEN Utf8From(s, i + 1)
         ELSE IF b \in 194..223 THEN Utf8Cont(s, i + 1) /\ Utf8From(s, i + 2)
         ELSE IF b \in 224..239
              THEN /\ Utf8Cont(s, i + 1) /\ Utf8Cont(s, i + 2)
                   /\ (b = 224 => s[i + 1] >= 160)
                   /\ (b = 237 => s[i + 1] <= 159)
                   /\ Utf8From(s, i + 3)
         ELSE IF b \in 240..244
              THEN /\ Utf8Cont(s, i + 1) /\ Utf8Cont(s, i + 2) /\ Utf8Cont(s, i + 3)
                   /\ (b = 240 => s[i + 1] >= 144)
                   /\ (b = 244 => s[i + 1] <= 143)
                   /\ Utf8From(s, i + 4)
         ELSE FALSE

from_utf8(s) == Utf8From(s, 1)

\* MohawkReader::read_string of mohawk.rs at position p of the bytes: the
\* string is kept as its bytes.  Removing the last byte of nothing panics.
read_string(bytes, p) ==
    LET resource_name_bytes == read_until(bytes, p, 0) IN
    IF resource_name_bytes = <<>> THEN [err |-> Panic, str |-> <<>>]
    ELSE LET name == SubSeq(resource_name_bytes, 1, Len(resource_name_bytes) - 1) IN
         IF from_utf8(name) THEN [err |-> NoError, str |-> name]
         ELSE [err |-> Err("UTF8"), str |-> <<>>]

\* `read_u16()? - 1` of parse_resource_table, in u16
file_id_of(file_id_plus_one) ==
    IF file_id_plus_one = 0
    THEN IF overflow_checks THEN [panic |-> TRUE, val |-> 0]
         ELSE [panic |-> FALSE, val |-> 2^16 - 1]
    ELSE [panic |-> FALSE, val |-> file_id_plus_one - 1]

\* parse_resource_table: the (ResourceID, FileID) pairs in the order of the file
parse_resource_table(raw) ==
    IF \E i \in 1..Len(raw) : file_id_of(raw[i].file_id_plus_one).panic
    THEN [err |-> Panic, table |-> <<>>]
    ELSE [err |-> NoError,
          table |-> [i \in 1..Len(raw) |->
                       <<raw[i].resource_id, file_id_of(raw[i].file_id_plus_one).val>>]]

\* parse_name_table: the (ResourceID, name offset) pairs in the order of the file
parse_name_table(raw) ==
    [i \in 1..Len(raw) |-> <<raw[i].resource_id, raw[i].name_offset_in_name_list>>]

\* HashMap::insert and HashMap::remove on a map kept as a function
Insert(map, k, v) == [x \in DOMAIN map \cup {k} |-> IF x = k THEN v ELSE map[x]]
Remove(map, k) == [x \in DOMAIN map \ {k} |-> map[x]]

NoName == [some |-> FALSE, str |-> <<>>]
Some(str) == [some |-> TRUE, str |-> str]

\* the names of one name table, read one by one from the name list and
\* collected into a map: ResourceID -> name
RECURSIVE read_names(_, _, _, _)
read_names(name_table, name_list, i, acc) ==
    IF i > Len(name_table) THEN [err |-> NoError, names |-> acc]
    ELSE LET r == read_string(name_list, name_table[i][2]) IN
         IF r.err # NoError THEN [err |-> r.err, names |-> <<>>]
         ELSE read_names(name_table, name_list, i + 1, Insert(acc, name_table[i][1], r.str))

\* the inner map of the join over one resource table: every entry takes its
\* name by `resource_id_to_name.remove(&file_id)` and its File by
\* `files.remove(&file_id)`; the pairs are collected into a map
RECURSIVE join_resources(_, _, _, _, _)
join_resources(resource_table, resource_id_to_name, fs, i, acc) ==
    IF i > Len(resource_table)
    THEN [err |-> NoError, resources |-> acc, files |-> fs]
    ELSE LET resource_id == resource_table[i][1]
             file_id == resource_table[i][2]
             name == IF file_id \in DOMAIN resource_id_to_name
                     THEN Some(resource_id_to_name[file_id]) ELSE NoName
         IN  IF file_id \notin DOMAIN fs
             THEN [err |-> Err("UnknownFileID"), resources |-> <<>>, files |-> fs]
             ELSE join_resources(resource_table, Remove(resource_id_to_name, file_id),
                                 Remove(fs, file_id), i + 1,
                                 Insert(acc, resource_id,
                                        [name |-> name, file |-> fs[file_id]]))

\* the outer map of the join over the collected types, in their order,
\* collected into a map: TypeID -> (ResourceID -> Resource)
RECURSIVE join_types(_, _, _, _)
join_types(tables, fs, i, acc) ==
    IF i > Len(tables) THEN [err |-> NoError, types |-> acc, files |-> fs]
    ELSE LET r == join_resources(tables[i].resource_table,
                                 tables[i].resource_id_to_name, fs, 1, <<>>)
         IN  IF r.err # NoError THEN [err |-> r.err, types |-> <<>>, files |-> r.files]
             ELSE join_types(tables, r.files, i + 1,
                             Insert(acc, tables[i].resource_type, r.resources))

(***************************************************************************)
(* Mohawk::with_reader, from the headers to the catalogue.                 *)
(***************************************************************************)
\* the largest resource table of a directory
MaxResources == 2

ResourceEntries ==
    {[resource_id |-> 0, file_id_plus_one |-> 1],
     [resource_id |-> 1, file_id_plus_one |-> 1],
     [resource_id |-> 1, file_id_plus_one |-> 2],
     [resource_id |-> 0, file_id_plus_one |-> 0]}

NameEntries ==
    {[name_offset_in_name_list |-> 0, resource_id |-> 0],
     [name_offset_in_name_list |-> 4, resource_id |-> 1]}

\* "abc" and "d", each with its terminator
NameList == <<97, 98, 99, 0, 100, 0>>

\* the resource tables and the name tables a file may hold at an offset of
\* its directory: what was read there before, when the offset was visited
ResourceTablesAt(offset) ==
    IF offset \in DOMAIN dir.resource_tables THEN {dir.resource_tables[offset]}
    ELSE IF offset = 40 THEN SeqsUpTo(ResourceEntries, MaxResources)
    ELSE SeqsUpTo(ResourceEntries, 1)

NameTablesAt(offset) ==
    IF offset \in DOMAIN dir.name_tables THEN {dir.name_tables[offset]}
    ELSE IF offset = 60 THEN SeqsUpTo(NameEntries, 1)
    ELSE {<<>>}

\* the headers that pass every check
ValidHeaders ==
    {f \in Headers : /\ f.nfields = 9
                     /\ parse_iff_header(f).err = NoError
                     /\ parse_rsrc_header(f, parse_iff_header(f).total,
                                          NoRSRCHeader).err = NoError}

InitCatalogue ==
    /\ overflow_checks \in BOOLEAN
    /\ EncParked /\ DecFresh /\ ReaderParked
    /\ file \in ValidHeaders
    /\ dir = NoDirectory
    /\ mpc = "iff"
    /\ MohawkFresh

\* one iteration of the loop over type_tables: parse_resource_table,
\* parse_name_table, then the names read from the name list
ParseType ==
    /\ mpc = "types"
    /\ Len(types_tables) < Len(type_tables)
    /\ LET entry == type_tables[Len(types_tables) + 1]
           resource_offset == entry.resource_table_offset_in_resource_dir
           name_offset == entry.name_table_offset_in_resource_dir
       IN  \E eof \in BOOLEAN, raw_resources \in ResourceTablesAt(resource_offset),
              raw_names \in NameTablesAt(name_offset) :
            LET resources == parse_resource_table(raw_resources)
                name_table == parse_name_table(raw_names)
                names == read_names(name_table, NameList, 1, <<>>)
            IN
            /\ dir' = [resource_tables |->
                          Insert(dir.resource_tables, resource_offset, raw_resources),
                       name_tables |-> Insert(dir.name_tables, name_offset, raw_names),
                       name_list |-> NameList]
            /\ IF eof THEN Fail(Err("IO")) /\ UNCHANGED types_tables
               ELSE IF resources.err # NoError
                    THEN Fail(resources.err) /\ UNCHANGED types_tables
               ELSE IF names.err # NoError
                    THEN Fail(names.err) /\ UNCHANGED types_tables
               ELSE /\ types_tables' = Append(types_tables,
                           [resource_type |-> entry.tag,
                            resource_table |-> resources.table,
                            resource_id_to_name |-> names.names])
                    /\ UNCHANGED <<mpc, mres>>
    /\ mlog' = Append(mlog, "type")
    /\ UNCHANGED <<svars, rvars, overflow_checks, pbvars, dvars, file, total_file_size, rsrc,
                   name_list_offset, type_tables, file_count, files, types>>

\* the join of the collected tables with the file table, and the return
Join ==
    /\ mpc = "types"
    /\ Len(types_tables) = Len(type_tables)
    /\ LET r == join_types(types_tables, files, 1, <<>>) IN
       /\ files' = r.files
       /\ IF r.err # NoError
          THEN Fail(r.err) /\ UNCHANGED types
          ELSE mpc' = "done" /\ types' = r.types /\ UNCHANGED mres
    /\ mlog' = Append(mlog, "join")
    /\ UNCHANGED <<svars, rvars, overflow_checks, pbvars, dvars, file, total_file_size, rsrc,
                   name_list_offset, type_tables, file_count, dir, types_tables>>

\* parse_file_table on the files whose table has at most MaxFiles entries
ParseShortFileTable ==
    ParseFileTableOf({U32(n) : n \in 0..(MaxFiles + 1)} \cup {NoCount},
                     SeqsUpTo(RawEntries, MaxFiles))

NextCatalogue ==
    \/ ParseIffHeader \/ ParseRsrcHeader \/ ReadDirectory \/ ParseShortFileTable
    \/ ParseType \/ Join

SpecCatalogue == InitCatalogue /\ [][NextCatalogue]_vars

(***************************************************************************)
(* Claims about the catalogue, under SpecCatalogue.                        *)
(***************************************************************************)
\* the type-table entry of type T (entries of one type share their offsets)
EntryOf(T) == CHOOSE e \in TypeEntries : e.tag = T
RawResourcesOf(T) == dir.resource_tables[EntryOf(T).resource_table_offset_in_resource_dir]
RawNamesOf(T) == dir.name_tables[EntryOf(T).name_table_offset_in_resource_dir]

\* the string of the name list at an offset: the bytes before the next 0x00
StringAt(offset) ==
    LET end == CHOOSE i \in (offset + 1)..Len(NameList) :
                  NameList[i] = 0 /\ \A j \in (offset + 1)..(i - 1) : NameList[j] # 0
    IN  SubSeq(NameList, offset + 1, end - 1)

\* the name the name table of T gives to ResourceID r
NameOf(T, r) ==
    LET hits == {i \in 1..Len(RawNamesOf(T)) : RawNamesOf(T)[i].resource_id = r} IN
    IF hits = {} THEN NoName
    ELSE Some(StringAt(RawNamesOf(T)[CHOOSE i \in hits : TRUE].name_offset_in_name_list))

\* C11: in the catalogue of a successful parse, the name of the resource
\* (type T, ResourceID r) is the name-list string referenced by the entry of
\* T's name table whose resource_id is r, and is absent when there is no such
\* entry; its File is the file-table entry at index file_id_plus_one - 1.
\* Stated on the step that returns the catalogue.
C11_NamesAndFiles ==
    [][(mpc = "types" /\ mpc' = "done") =>
          \A T \in DOMAIN types' : \A r \in DOMAIN types'[T] :
              /\ types'[T][r].name = NameOf(T, r)
              /\ \E i \in 1..Len(RawResourcesOf(T)) :
                    LET e == RawResourcesOf(T)[i] IN
                    /\ e.resource_id = r
                    /\ e.file_id_plus_one >= 1
                    /\ e.file_id_plus_one - 1 \in DOMAIN files
                    /\ types'[T][r].file = files[e.file_id_plus_one - 1]]_vars

\* C11 for the resources whose ResourceID equals their FileID
C11_WhenIdsCoincide ==
    [][(mpc = "types" /\ mpc' = "done"
          /\ \A k \in 1..Len(types_tables) :
               \A i \in 1..Len(types_tables[k].resource_table) :
                  types_tables[k].resource_table[i][1] = types_tables[k].resource_table[i][2])
        => \A T \in DOMAIN types' : \A r \in DOMAIN types'[T] :
              /\ types'[T][r].name = NameOf(T, r)
              /\ types'[T][r].file = files[r]]_vars

\* the type entries whose tables were read, in the order of the type table
Visited ==
    SelectSeq(type_tables,
              LAMBDA e : e.resource_table_offset_in_resource_dir
                            \in DOMAIN dir.resource_tables)

\* the FileIDs (file_id_plus_one - 1) of the entries of the visited resource
\* tables, in the order the parse meets them
RECURSIVE FileIdsFrom(_, _)
FileIdsFrom(entries, k) ==
    IF k > Len(entries) THEN <<>>
    ELSE LET raw == dir.resource_tables[entries[k].resource_table_offset_in_resource_dir]
         IN  [i \in 1..Len(raw) |-> raw[i].file_id_plus_one - 1]
             \o FileIdsFrom(entries, k + 1)

FileIds == FileIdsFrom(Visited, 1)

\* an entry names a FileID that the file table lacks or that an earlier
\* entry took
SomeFileMissing ==
    \E k \in 1..Len(FileIds) :
        \/ FileIds[k] \notin 0..(file_count[2] - 1)
        \/ \E j \in 1..(k - 1) : FileIds[j] = FileIds[k]

\* the parse ended after the file table, and not on a failed read
EndedOnTables ==
    /\ mpc \in {"done", "failed", "panicked"}
    /\ mlog[Len(mlog)] \in {"type", "join"}
    /\ mres # Err("IO")

\* C12: each FileID is consumed by at most one resource: an entry whose FileID
\* is not in the file table, or was taken by an earlier entry of the same or
\* another type, makes the whole parse fail with UnknownFileID, so a returned
\* catalogue references existing File entries and shares none.
C12_FileConsumedOnce ==
    (mlog # <<>> /\ EndedOnTables) =>
        /\ SomeFileMissing => mres = Err("UnknownFileID")
        /\ mpc = "done" => ~SomeFileMissing

\* C12 for the directories in which every entry stores a file_id_plus_one >= 1
C12_WhenIdsPositive ==
    (\A k \in 1..Len(FileIds) : FileIds[k] >= 0) => C12_FileConsumedOnce

\* offset + size <= total for an offset and a total kept as 16-bit halves
FitsIn(offset, size, total) ==
    LET lo == offset[2] + (size % 2^16)
        hi == offset[1] + (size \div 2^16) + (lo \div 2^16)
    IN  hi < total[1] \/ (hi = total[1] /\ lo % 2^16 <= total[2])

\* C13: every File of every Resource of a returned catalogue satisfies
\* offset + size <= total archive file size (the IFF size + 8), with
\* size < 2^24.
C13_FileInBounds ==
    mpc = "done" =>
        \A T \in DOMAIN types : \A r \in DOMAIN types[T] :
            /\ FitsIn(types[T][r].file.offset, types[T][r].file.size, total_file_size)
            /\ types[T][r].file.size < 2^24

\* the part of C13 that the shift of size_and_flag gives
C13_SizeBelow2p24 ==
    mpc = "done" =>
        \A T \in DOMAIN types : \A r \in DOMAIN types[T] : types[T][r].file.size < 2^24

(***************************************************************************)
(* src/mohawk/reader.rs: MohawkReader and Handler.                         *)
(***************************************************************************)
\* the readers of one run: the one MohawkReader::open returns, and a clone
ReaderIds == {"opened", "cloned"}

\* the bytes of the file: "a", a string that is not UTF-8, and a "b" that
\* the end of the file cuts before its terminator
FileBytes == <<97, 0, 255, 0, 98>>

FixedWitdhCommands == {"ReadU8", "ReadU16", "ReadU32", "Read4Bytes"}
Commands == FixedWitdhCommands \cup {"ReadString"}

\* FixedWitdhCommands::width
width(cmd) ==
    CASE cmd = "ReadU8" -> 1
      [] cmd = "ReadU16" -> 2
      [] cmd = "ReadU32" -> 4
      [] cmd = "Read4Bytes" -> 4

\* the value a typed big-endian read makes of the bytes it read, as a tuple
\* of numbers: a u8 and a u16 as one number, a u32 as its two 16-bit halves
ValueOf(cmd, bytes) ==
    CASE cmd = "ReadU8" -> <<bytes[1]>>
      [] cmd = "ReadU16" -> <<bytes[1] * 256 + bytes[2]>>
      [] cmd = "ReadU32" -> <<bytes[1] * 256 + bytes[2], bytes[3] * 256 + bytes[4]>>
      [] cmd = "Read4Bytes" -> bytes

NoAnswer == [ok |-> FALSE, val |-> <<>>, err |-> "none"]
Ok(val) == [ok |-> TRUE, val |-> val, err |-> "none"]
Failed(err) == [ok |-> FALSE, val |-> <<>>, err |-> err]
\* the oneshot channel holds an answer
HasAnswer(answer) == answer.ok \/ answer.err # "none"

\* a MohawkReader: where it stands, its pos, the command it waits for and
\* what its oneshot receiver holds
Reader(state, pos, cmd, answer) ==
    [state |-> state, pos |-> pos, cmd |-> cmd, answer |-> answer, inflight |-> FALSE]
Absent == Reader("absent", 0, "none", NoAnswer)
\* a dropped reader; inflight: its request had no answer yet
Dropped(inflight) ==
    [state |-> "dropped", pos |-> 0, cmd |-> "none", answer |-> NoAnswer,
     inflight |-> inflight]

Alive(i) == readers[i].state \in {"idle", "waiting"}
HandlerDown == handler.status \in {"send_panic", "remove_panic"}

Max(a, b) == IF a > b THEN a ELSE b

\* Handler::seek: nothing when the recorded pos is seek_to, else the file
\* cursor and the recorded pos move there
Handler_seek_always(h, seek_to) == [h EXCEPT !.pos = seek_to, !.cursor = seek_to]
Handler_seek(h, seek_to) ==
    IF h.pos = seek_to THEN h
    ELSE [h EXCEPT !.pos = seek_to, !.cursor = seek_to]

\* one FixedWitdh command served at seek_to: the answer and the handler
\* after `self.pos += width`.  A read that meets the end of the file fails
\* and leaves the cursor at the end.
serve_fixed_width(h, seek_to, cmd) ==
    LET sought == Handler_seek(h, seek_to)
        from == sought.cursor
        to == from + width(cmd)
    IN  IF to <= Len(FileBytes)
        THEN [answer |-> Ok(ValueOf(cmd, SubSeq(FileBytes, from + 1, to))),
              panic |-> FALSE,
              handler |-> [sought EXCEPT !.pos = seek_to + width(cmd), !.cursor = to]]
        ELSE [answer |-> Failed("UnexpectedEof"),
              panic |-> FALSE,
              handler |-> [sought EXCEPT !.pos = seek_to + width(cmd),
                                         !.cursor = Max(from, Len(FileBytes))]]

\* the ReadString command served at seek_to: read_until(0), the last byte
\* removed (a panic when nothing was read), the UTF-8 conversion, and
\* `self.pos += ret.len() + 1` when it succeeds
serve_read_string(h, seek_to) ==
    LET sought == Handler_seek(h, seek_to)
        c_string == read_until(FileBytes, sought.cursor, 0)
        read == [sought EXCEPT !.cursor = sought.cursor + Len(c_string)]
    IN  IF c_string = <<>>
        THEN [answer |-> NoAnswer, panic |-> TRUE, handler |-> read]
        ELSE LET ret == SubSeq(c_string, 1, Len(c_string) - 1) IN
             IF from_utf8(ret)
             THEN [answer |-> Ok(ret), panic |-> FALSE,
                   handler |-> [read EXCEPT !.pos = sought.pos + Len(ret) + 1]]
             ELSE [answer |-> Failed("UTF8"), panic |-> FALSE, handler |-> read]

serve(h, seek_to, cmd) ==
    IF cmd \in FixedWitdhCommands THEN serve_fixed_width(h, seek_to, cmd)
    ELSE serve_read_string(h, seek_to)

\* what the reader does with the answer: send_fixed_width adds the width to
\* pos after an Ok, read_string adds ret.len()
pos_after(pos, cmd, answer) ==
    IF ~answer.ok THEN pos
    ELSE IF cmd \in FixedWitdhCommands THEN pos + width(cmd)
    ELSE pos + Len(answer.val)

(***************************************************************************)
(* The readers and the handler running together.                           *)
(***************************************************************************)
\* MohawkReader::open: one reader at 0, and the handler spawned
InitReader ==
    /\ overflow_checks \in BOOLEAN
    /\ EncParked /\ DecFresh /\ MohawkParked
    /\ readers = [i \in ReaderIds |->
                     IF i = "opened" THEN Reader("idle", 0, "none", NoAnswer) ELSE Absent]
    /\ queue = <<>>
    /\ handler = [pos |-> 0, cursor |-> 0, status |-> "running"]
    /\ StreamParked

\* Clone for MohawkReader
Clone(i, j) ==
    /\ readers[i].state = "idle" /\ readers[j].state = "absent"
    /\ readers' = [readers EXCEPT ![j] = Reader("idle", readers[i].pos, "none", NoAnswer)]
    /\ UNCHANGED <<queue, handler, overflow_checks, pbvars, dvars, mvars, svars>>

\* AsyncSeek::start_seek(SeekFrom::Start(cur))
Seek(i, cur) ==
    /\ readers[i].state = "idle"
    /\ readers' = [readers EXCEPT ![i].pos = cur]
    /\ UNCHANGED <<queue, handler, overflow_checks, pbvars, dvars, mvars, svars>>

\* MohawkReader::send up to `rx.await`: the command goes into the channel
\* with the reader's pos; when the handler is gone nothing takes the sender
\* and `rx.await.unwrap()` panics
Send(i, cmd) ==
    /\ readers[i].state = "idle"
    /\ IF HandlerDown
       THEN /\ readers' = [readers EXCEPT ![i] = Reader("panicked", 0, "none", NoAnswer)]
            /\ UNCHANGED queue
       ELSE /\ readers' = [readers EXCEPT ![i].state = "waiting", ![i].cmd = cmd]
            /\ queue' = Append(queue, [pos |-> readers[i].pos, cmd |-> cmd, resp |-> i])
    /\ UNCHANGED <<handler, overflow_checks, pbvars, dvars, mvars, svars>>

\* one turn of the loop of Handler::spawn: the command is served and the
\* answer sent with `resp.send(..).unwrap()`, which panics when the receiver
\* was dropped; a panic drops the channel and the commands in it
Serve ==
    /\ handler.status = "running" /\ queue # <<>>
    /\ LET command == Head(queue)
           r == serve(handler, command.pos, command.cmd)
       IN  IF r.panic
           THEN /\ handler' = [r.handler EXCEPT !.status = "remove_panic"]
                /\ queue' = <<>>
                /\ UNCHANGED readers
           ELSE IF readers[command.resp].state = "dropped"
           THEN /\ handler' = [r.handler EXCEPT !.status = "send_panic"]
                /\ queue' = <<>>
                /\ UNCHANGED readers
           ELSE /\ handler' = r.handler
                /\ queue' = Tail(queue)
                /\ readers' = [readers EXCEPT ![command.resp].answer = r.answer]
    /\ UNCHANGED <<overflow_checks, pbvars, dvars, mvars, svars>>

\* `rx.await` returns the answer: the read returns and the reader moves
Receive(i) ==
    /\ readers[i].state = "waiting" /\ HasAnswer(readers[i].answer)
    /\ readers' = [readers EXCEPT ![i] =
          Reader("idle", pos_after(readers[i].pos, readers[i].cmd, readers[i].answer),
                 "none", NoAnswer)]
    /\ UNCHANGED <<queue, handler, overflow_checks, pbvars, dvars, mvars, svars>>

\* `rx.await.unwrap()` when the handler panicked with the sender
ReceiveNothing(i) ==
    /\ readers[i].state = "waiting" /\ ~HasAnswer(readers[i].answer)
    /\ HandlerDown
    /\ readers' = [readers EXCEPT ![i] = Reader("panicked", 0, "none", NoAnswer)]
    /\ UNCHANGED <<queue, handler, overflow_checks, pbvars, dvars, mvars, svars>>

\* the reader is dropped, with the read it may be waiting for
Drop(i) ==
    /\ Alive(i)
    /\ readers' = [readers EXCEPT ![i] =
          Dropped(readers[i].state = "waiting" /\ ~HasAnswer(readers[i].answer))]
    /\ UNCHANGED <<queue, handler, overflow_checks, pbvars, dvars, mvars, svars>>

\* `rx.recv()` returns None: every sender is dropped and the channel is empty;
\* the task ends and the file is closed
Terminate ==
    /\ handler.status = "running" /\ queue = <<>>
    /\ \A i \in ReaderIds : ~Alive(i)
    /\ handler' = [handler EXCEPT !.status = "finished"]
    /\ UNCHANGED <<readers, queue, overflow_checks, pbvars, dvars, mvars, svars>>

NextReader ==
    \/ \E i, j \in ReaderIds : Clone(i, j)
    \/ \E i \in ReaderIds, cur \in 0..Len(FileBytes) : Seek(i, cur)
    \/ \E i \in ReaderIds, cmd \in Commands : Send(i, cmd)
    \/ Serve
    \/ \E i \in ReaderIds : Receive(i)
    \/ \E i \in ReaderIds : ReceiveNothing(i)
    \/ \E i \in ReaderIds : Drop(i)
    \/ Terminate

SpecReader == InitReader /\ [][NextReader]_vars

\* a reader is dropped while it waits for no answer
DropIdle(i) == readers[i].state = "idle" /\ Drop(i)

NextUndropped ==
    \/ \E i, j \in ReaderIds : Clone(i, j)
    \/ \E i \in ReaderIds, cur \in 0..Len(FileBytes) : Seek(i, cur)
    \/ \E i \in ReaderIds, cmd \in Commands : Send(i, cmd)
    \/ Serve
    \/ \E i \in ReaderIds : Receive(i)
    \/ \E i \in ReaderIds : ReceiveNothing(i)
    \/ \E i \in ReaderIds : DropIdle(i)
    \/ Terminate

\* the readers and the handler when no reader is dropped while it waits:
\* the runtime keeps polling the handler task while the channel holds a
\* command, and wakes a reader whose oneshot channel was answered or closed
SpecUndropped ==
    /\ InitReader /\ [][NextUndropped]_vars
    /\ WF_vars(Serve)
    /\ \A i \in ReaderIds : WF_vars(Receive(i)) /\ WF_vars(ReceiveNothing(i))

(***************************************************************************)
(* AsyncRead for MohawkReader: poll_read and the ReadBuf command.          *)
(***************************************************************************)
\* largest remaining capacity of the buffer a caller reads into
MaxCapacity == 2

\* the room `read_buf` finds after the `capacity` bytes of the Vec, which is
\* full: chunk_mut reserves 64 bytes, and the Vec grows to the double of its
\* capacity at least
spare(capacity) == Max(capacity, 64)

\* a MohawkReader that is read through AsyncRead: its pos, the request kept
\* in its field `reader` ("none", "pending" or "completed"), the remaining
\* capacity of the caller's buffer, what its oneshot receiver holds, the
\* bytes put into the caller's buffer and the panic that ended a poll
Polled(state, pos) ==
    [state |-> state, pos |-> pos, request |-> "none", wanted |-> 0,
     answer |-> NoAnswer, delivered |-> <<>>, panic |-> "none"]

\* the ReadBuf command served at seek_to: the bytes read are appended to the
\* Vec of `capacity` zeros, and `self.pos += buf.len()`
serve_read_buf(h, seek_to, capacity) ==
    LET sought == Handler_seek(h, seek_to)
        from == sought.cursor
        n == Min(spare(capacity), Max(Len(FileBytes) - from, 0))
        \* vec![0; capacity], then the bytes read_buf appends
        buf == [k \in 1..capacity |-> 0] \o SubSeq(FileBytes, from + 1, from + n)
    IN  [answer |-> Ok(buf),
         handler |-> [sought EXCEPT !.pos = seek_to + Len(buf), !.cursor = from + n]]

\* MohawkReader::open: one reader at 0, and the handler spawned
InitPoll ==
    /\ overflow_checks \in BOOLEAN
    /\ EncParked /\ DecFresh /\ MohawkParked
    /\ readers = [i \in ReaderIds |->
                     IF i = "opened" THEN Polled("alive", 0) ELSE Polled("absent", 0)]
    /\ queue = <<>>
    /\ handler = [pos |-> 0, cursor |-> 0, status |-> "running"]
    /\ StreamParked

\* Clone for MohawkReader: the pos is copied, `reader` is None
PollClone(i, j) ==
    /\ readers[i].state = "alive" /\ readers[j].state = "absent"
    /\ readers' = [readers EXCEPT ![j] = Polled("alive", readers[i].pos)]
    /\ UNCHANGED <<queue, handler, overflow_checks, pbvars, dvars, mvars, svars>>

\* AsyncSeek::start_seek(SeekFrom::Start(cur))
PollSeek(i, cur) ==
    /\ readers[i].state = "alive"
    /\ readers' = [readers EXCEPT ![i].pos = cur]
    /\ UNCHANGED <<queue, handler, overflow_checks, pbvars, dvars, mvars, svars>>

\* poll_read when `reader` is None: the request is made with buf.remaining()
\* and the reader's pos, stored, and polled: the command goes into the
\* channel and the poll returns Pending
PollNew(i, capacity) ==
    /\ readers[i].state = "alive" /\ readers[i].request = "none"
    /\ readers' = [readers EXCEPT ![i].request = "pending", ![i].wanted = capacity]
    /\ queue' = Append(queue, [pos |-> readers[i].pos, cmd |-> "ReadBuf",
                                capacity |-> capacity, resp |-> i])
    /\ UNCHANGED <<handler, overflow_checks, pbvars, dvars, mvars, svars>>

\* one turn of the loop of Handler::spawn on a ReadBuf command
ServeBuf ==
    /\ handler.status = "running" /\ queue # <<>>
    /\ handler' = serve_read_buf(handler, Head(queue).pos, Head(queue).capacity).handler
    /\ readers' = [readers EXCEPT ![Head(queue).resp].answer =
          serve_read_buf(handler, Head(queue).pos, Head(queue).capacity).answer]
    /\ queue' = Tail(queue)
    /\ UNCHANGED <<overflow_checks, pbvars, dvars, mvars, svars>>

\* poll_read when the stored request has its answer: put_slice panics when
\* the bytes do not fit in the caller's buffer, else they are put there and
\* pos moves; `reader` keeps the request, which is completed
PollReady(i) ==
    /\ readers[i].state = "alive" /\ readers[i].request = "pending"
    /\ HasAnswer(readers[i].answer)
    /\ readers' = [readers EXCEPT ![i] =
          IF Len(readers[i].answer.val) > readers[i].wanted
          THEN [@ EXCEPT !.state = "panicked", !.panic = "put_slice",
                         !.request = "completed", !.answer = NoAnswer]
          ELSE [@ EXCEPT !.request = "completed", !.answer = NoAnswer,
                         !.delivered = readers[i].answer.val,
                         !.pos = @ + Len(readers[i].answer.val)]]
    /\ UNCHANGED <<queue, handler, overflow_checks, pbvars, dvars, mvars, svars>>

\* poll_read when the stored request is completed: the future of an async
\* fn is polled after it returned, which panics
PollCompleted(i) ==
    /\ readers[i].state = "alive" /\ readers[i].request = "completed"
    /\ readers' = [readers EXCEPT ![i].state = "panicked",
                                  ![i].panic = "resumed after completion"]
    /\ UNCHANGED <<queue, handler, overflow_checks, pbvars, dvars, mvars, svars>>

NextPoll ==
    \/ \E i, j \in ReaderIds : PollClone(i, j)
    \/ \E i \in ReaderIds, cur \in 0..Len(FileBytes) : PollSeek(i, cur)
    \/ \E i \in ReaderIds, capacity \in 0..MaxCapacity : PollNew(i, capacity)
    \/ ServeBuf
    \/ \E i \in ReaderIds : PollReady(i)
    \/ \E i \in ReaderIds : PollCompleted(i)

SpecPoll == InitPoll /\ [][NextPoll]_vars

(***************************************************************************)
(* Claims about the readers and the handler, under SpecReader.             *)
(***************************************************************************)
\* the reader waits with its answer in hand: the read is about to return it
Answered(i) == readers[i].state = "waiting" /\ HasAnswer(readers[i].answer)

\* the bytes of the file from position p (counted from 0), at most n of them
BytesAt(p, n) == SubSeq(FileBytes, p + 1, Min(p + n, Len(FileBytes)))

\* the bytes before the first 0x00 at or after position p (all the rest of
\* the file when there is none)
StringBefore0(p) ==
    LET zeros == {k \in (p + 1)..Len(FileBytes) : FileBytes[k] = 0} IN
    IF zeros = {} THEN SubSeq(FileBytes, p + 1, Len(FileBytes))
    ELSE SubSeq(FileBytes, p + 1, (CHOOSE k \in zeros : \A l \in zeros : k <= l) - 1)
Terminated(p) == \E k \in (p + 1)..Len(FileBytes) : FileBytes[k] = 0

\* the answer in the hands of reader i is made of the bytes at its own pos
AnswerAtOwnPosition(i) ==
    LET r == readers[i] IN
    IF r.cmd \in FixedWitdhCommands
    THEN IF r.pos + width(r.cmd) <= Len(FileBytes)
         THEN r.answer.ok /\ r.answer.val = ValueOf(r.cmd, BytesAt(r.pos, width(r.cmd)))
         ELSE ~r.answer.ok
    ELSE r.answer.ok => (Terminated(r.pos) => r.answer.val = StringBefore0(r.pos))

\* a step of reader i itself: its clone, its seek, the return of its read,
\* its drop
OwnStep(i) ==
    \/ \E j \in ReaderIds : Clone(j, i)
    \/ \E cur \in 0..Len(FileBytes) : Seek(i, cur)
    \/ Receive(i) \/ ReceiveNothing(i) \/ Drop(i)
    \/ \E cmd \in Commands : Send(i, cmd)

\* C14: for any interleaving of the reads of two readers that share one
\* handler (a reader and its clone), every read returns the file bytes at
\* the issuing reader's own position, and a reader's position is changed
\* only by its own reads and seeks, never by the other reader's.
C14_IsolatedReaders ==
    [][\A i \in ReaderIds :
          /\ Answered(i)' => AnswerAtOwnPosition(i)'
          /\ readers'[i].pos # readers[i].pos => OwnStep(i)]_vars

\* C14 without the reads of strings
C14_PositionsAreOwn ==
    [][\A i \in ReaderIds : readers'[i].pos # readers[i].pos => OwnStep(i)]_vars

\* a reader was dropped while its read was queued or being served, and it
\* has a peer
DroppedInFlight ==
    \E i, j \in ReaderIds :
        /\ readers[i].state = "dropped" /\ readers[i].inflight
        /\ j # i /\ readers[j].state \in {"idle", "waiting", "panicked"}

\* C15: dropping a reader while one of its reads is queued or being served
\* does not affect its peers: the handler keeps serving and the later reads
\* of the remaining readers are answered.
C15_DropIsolated ==
    DroppedInFlight =>
        /\ handler.status # "send_panic"
        /\ \A j \in ReaderIds :
              readers[j].state = "panicked" => handler.status = "remove_panic"

\* C16: the handler task, which owns the open file, stays alive as long as
\* at least one reader (the original or a clone) exists, and it ends, closing
\* the file, only when the last reader is dropped and the channel is empty.
C16_HandlerLifetime ==
    /\ (\E i \in ReaderIds : Alive(i)) => handler.status = "running"
    /\ handler.status = "finished" => (queue = <<>> /\ \A i \in ReaderIds : ~Alive(i))

\* the handler ends only after the last reader and with an empty channel
C16_EndsAfterLastReader ==
    handler.status = "finished" => (queue = <<>> /\ \A i \in ReaderIds : ~Alive(i))

\* C17: read_string at position p, where the file holds s followed by 0x00,
\* returns s decoded as UTF-8 and leaves the reader at p + len(s) + 1, past
\* the terminator; when s is not UTF-8 it returns a UTF-8 error.
C17_ReadString ==
    [][\A i \in ReaderIds :
          (readers[i].cmd = "ReadString" /\ Terminated(readers[i].pos) /\ Receive(i)) =>
              LET p == readers[i].pos
                  s == StringBefore0(p)
                  answer == readers[i].answer
              IN  IF from_utf8(s)
                  THEN /\ answer.ok /\ answer.val = s
                       /\ readers'[i].pos = p + Len(s) + 1
                  ELSE answer.err = "UTF8"]_vars



\* the handler takes a command out of the channel in this step
ServeStep == queue # <<>> /\ queue' # queue /\ Len(queue') < Len(queue)
\* where the bytes of that command are read from: the cursor of the file as
\* it is when the command asks for the recorded position, the position
\* asked after a seek
ReadStart ==
    IF Head(queue).pos = handler.pos THEN handler.cursor ELSE Head(queue).pos
\* the command is read from `start`: the cursor moves from there over the
\* bytes read, and a fixed-width answer is made of the bytes there
ServedFrom(start) ==
    LET command == Head(queue)
        to == start + width(command.cmd)
    IN  IF command.cmd \notin FixedWitdhCommands
        THEN handler'.cursor = start + Len(read_until(FileBytes, start, 0))
        ELSE IF to > Len(FileBytes)
        THEN handler'.cursor = Max(start, Len(FileBytes))
        ELSE /\ handler'.cursor = to
             /\ readers[command.resp].state # "dropped" =>
                  readers'[command.resp].answer =
                      Ok(ValueOf(command.cmd, SubSeq(FileBytes, start + 1, to)))

\* C27: the handler seeks in the file for a request exactly when the
\* position asked differs from the position it has recorded; a request at
\* the recorded position is served from the buffered reader as it stands,
\* without a seek.
C27_SeekWhenMoved == [][ServeStep => ServedFrom(ReadStart)]_vars
\* a read of one byte asked at the recorded position 2 was served without a
\* seek, from the cursor, which stood at 4
C27_Witness ==
    \E i \in ReaderIds :
        /\ Answered(i) /\ readers[i].cmd = "ReadU8" /\ readers[i].pos = 2
        /\ readers[i].answer = Ok(<<98>>)
        /\ handler.pos = 3 /\ handler.cursor = 5

\* a typed read of reader i returns successfully in this step
TypedReadReturns(i) ==
    /\ readers[i].cmd \in FixedWitdhCommands /\ readers[i].answer.ok
    /\ Receive(i)

\* C28: between two seeks of one reader each successful typed read of width
\* w (u8: 1, u16: 2, u32: 4, 4-byte array: 4) returns the big-endian value
\* of the file bytes [pos, pos + w) and advances the reader's position by w:
\* successive reads see increasing offsets, no byte skipped or read twice.
C28_TypedReads ==
    [][\A i \in ReaderIds :
          TypedReadReturns(i) =>
              LET r == readers[i] IN
              /\ r.answer.val = ValueOf(r.cmd, BytesAt(r.pos, width(r.cmd)))
              /\ readers'[i].pos = r.pos + width(r.cmd)]_vars

\* what holds instead: the position advances by w, and the value is made of
\* w bytes of the file, those at the reader's position or further
C28_AdvanceByWidth ==
    [][\A i \in ReaderIds :
          TypedReadReturns(i) =>
              LET r == readers[i] IN
              /\ readers'[i].pos = r.pos + width(r.cmd)
              /\ \E p \in r.pos..Len(FileBytes) :
                    /\ p + width(r.cmd) <= Len(FileBytes)
                    /\ r.answer.val = ValueOf(r.cmd, BytesAt(p, width(r.cmd)))]_vars


(***************************************************************************)
(* Bounded sub-streams of the positioned reader.  The reader of            *)
(* src/mohawk/reader.rs has no bound; src/mohawk/pict.rs and main.rs use a *)
(* reader that has one.  A sub-stream is modelled as the specification     *)
(* describes it: a logical reader over the reader it was taken from,       *)
(* bounded to a byte count.                                                *)
(***************************************************************************)
\* largest byte count given to a sub-stream
MaxTake == 3
\* largest number of bytes the file holds from the base reader's position on
MaxFileLen == 4
\* largest number of bytes asked by one read
MaxRead == 2
\* the claim takes a sub-stream and one sub-stream from it
Depth == 2

\* a sub-stream bounded to n bytes: nothing delivered yet
Bounded(n) == [size |-> n, left |-> n]

\* bytes a read of `amount` bytes gets through the k-th sub-stream: it asks
\* the reader it was taken from for no more than it may still deliver,
\* and the base reader (k = 0) delivers what the file holds
RECURSIVE Deliverable(_, _)
Deliverable_innermost(k, amount) ==
    IF k = 0 THEN Min(amount, base) ELSE Min(Min(amount, takes[k].left), base)
Deliverable(k, amount) ==
    IF k = 0 THEN Min(amount, base)
    ELSE Deliverable(k - 1, Min(amount, takes[k].left))

\* a base reader over a file of 0..MaxFileLen bytes, no sub-stream taken
InitTake ==
    /\ overflow_checks \in BOOLEAN
    /\ EncParked /\ DecFresh /\ MohawkParked
    /\ readers = <<>> /\ queue = <<>> /\ handler = NoHandler
    /\ base \in 0..MaxFileLen
    /\ takes = <<>> /\ got = 0 /\ last = "none"
    /\ PictParked

\* taking a sub-stream of n bytes from the innermost reader
Take(n) ==
    /\ Len(takes) < Depth /\ last = "none"
    /\ takes' = Append(takes, Bounded(n))
    /\ UNCHANGED <<base, got, last, ovars, overflow_checks, pbvars, dvars, mvars, rvars>>

\* a read of `amount` bytes through the innermost sub-stream: the bytes
\* delivered are counted by every reader of the chain; no byte is
\* end-of-stream
Read(amount) ==
    /\ Len(takes) = Depth
    /\ LET n == Deliverable(Len(takes), amount) IN
        /\ takes' = [k \in 1..Len(takes) |-> [takes[k] EXCEPT !.left = @ - n]]
        /\ base' = base - n
        /\ got' = got + n
        /\ last' = IF n = 0 THEN "eof" ELSE "data"
    /\ UNCHANGED <<ovars, overflow_checks, pbvars, dvars, mvars, rvars>>

NextTake ==
    \/ \E n \in 0..MaxTake : Take(n)
    \/ \E amount \in 1..MaxRead : Read(amount)

SpecTake == InitTake /\ [][NextTake]_vars

\* the bound of the claim: min(n, m) of the two sub-streams taken
BoundOfTwo == Min(takes[1].size, takes[2].size)
\* bytes of the file from the base reader's position on, at the start
FileLen == base + got

\* C18: a sub-stream bounded to m bytes taken from a sub-stream bounded to n
\* bytes never delivers more than min(n, m) bytes, a read through it never
\* fails, it delivers data as long as fewer than min(n, m) bytes were
\* delivered and the file holds more, and when the file holds min(n, m) bytes
\* end-of-stream is reported exactly after min(n, m) bytes.
C18_ReaderBound ==
    Len(takes) = Depth =>
        /\ got <= BoundOfTwo
        /\ last \in {"none", "data", "eof"}
        /\ (last = "eof" /\ FileLen >= BoundOfTwo) => got = BoundOfTwo
        /\ (got < BoundOfTwo /\ base > 0) => last # "eof"
        /\ got = BoundOfTwo => Deliverable(Depth, MaxRead) = 0

\* end-of-stream after min(n, m) > 0 bytes, with n > m, and with file left
C18_Witness ==
    /\ Len(takes) = Depth /\ last = "eof"
    /\ takes[1].size > takes[2].size
    /\ got = takes[2].size /\ got > 0 /\ base > 0

\* the same with the outer bound the smaller one
C18_WitnessOuter ==
    /\ Len(takes) = Depth /\ last = "eof"
    /\ takes[1].size < takes[2].size
    /\ got = takes[1].size /\ got > 0 /\ base > 0


(***************************************************************************)
(* pict-decoder/src/operation.rs: the operations of a PICT resource.       *)
(* An operation is given by its tag and by the operand fields the parse    *)
(* looks at; the other operand bytes are read and kept as they are.        *)
(***************************************************************************)
Nop == 0
Clip == 1
TxFont == 3
TxFace == 4
PnSize == 7
TxSize == 13
TxRatio == 16
VersionOp == 17
DefHilite == 30
LongText == 40
DirectBitsRect == 154
LongComment == 161
OpEndPic == 255
Version == 767
HeaderOp == 3072
CompressedQuickTime == 33280

Opcode ==
    {Nop, Clip, TxFont, TxFace, PnSize, TxSize, TxRatio, VersionOp, DefHilite,
     LongText, DirectBitsRect, LongComment, OpEndPic, Version, HeaderOp,
     CompressedQuickTime}

\* ImageDescription::RAW_SIZE
RAW_SIZE == 86

\* what a parse gives: an operation (the bytes consumed and, for the two
\* operations that hold an image, its pix_data or data), an error, a panic
DoneWith(n, data) ==
    [res |-> "Ok", kind |-> "none", arg |-> 0, consumed |-> n, data |-> data]
Done(n) == DoneWith(n, <<>>)
Error(kind, arg) ==
    [res |-> "Err", kind |-> kind, arg |-> arg, consumed |-> 0, data |-> <<>>]
Aborted(kind) ==
    [res |-> "panic", kind |-> kind, arg |-> 0, consumed |-> 0, data |-> <<>>]

\* utils.rs skip_filler on the byte `fill`, then `next`
skip_filler(fill, next) ==
    IF fill # 0 THEN Error("InvalidFiller", fill) ELSE next

\* utils.rs skip_reserved on a field that holds `nonzero` bytes that are not
\* zero, then `next`: a warning, never an error
skip_reserved(nonzero, next) == next

\* PixMap::parse: the panic it ends with, or "none"; it reads 50 bytes
PixMap_parse(pix) ==
    LET row_bytes == pix.row_bytes_and_flag % 16384
        flags == pix.row_bytes_and_flag \div 16384
    IN  IF row_bytes % 2 # 0 \/ row_bytes >= 16384 THEN "invalid row bytes"
        ELSE IF flags % 2 # 0 THEN "unexpected row bytes 15th bit"
        ELSE IF pix.version # 0 THEN "unexpected version"
        ELSE IF pix.pack_type >= 5 THEN "unsupported pack_type"
        ELSE IF pix.pack_type = 0 /\ pix.pack_size # 0
             THEN "image not packed but pack size not zero"
        ELSE IF pix.pixel_type \notin {0, 16} THEN "to be a valid pixel type"
        ELSE "none"

\* the flag taken from bit 14 of row_bytes_and_flag
pointed_by_low_flag(pix) == (pix.row_bytes_and_flag \div 16384) % 2 = 1
\* PixMap::parse: the field pointed_is_pixmap_record of the PixMap it returns,
\* `flags == 0b10` with flags the two highest bits
pointed_is_pixmap_record(pix) == pix.row_bytes_and_flag \div 16384 = 2

\* total length of the byte strings of `data`
RECURSIVE SumLen(_)
SumLen(data) == IF data = <<>> THEN 0 ELSE Len(Head(data)) + SumLen(Tail(data))

\* the byte strings of `data` one after the other
RECURSIVE Flatten(_)
Flatten(data) == IF data = <<>> THEN <<>> ELSE Head(data) \o Flatten(Tail(data))

\* a decoded line left as it is
Planar(line) == line
\* a decoded line whose length is a multiple of three: r, g and b are its
\* thirds, zipped and flattened
Interleave(line) ==
    LET k == Len(line) \div 3 IN
    [j \in 1..(3 * k) |-> line[((j - 1) % 3) * k + ((j - 1) \div 3) + 1]]

\* the filler flag after a length of one byte was read
Parity_kept(odd) == odd
Parity_flipped(odd) == ~odd

\* the loop over the lines of pack type 4: `data` holds the encoded lines
\* the buffer still has, `height` lines are still to read, `odd` is
\* odd_bytes_count_read, n the bytes read so far and `ret` the pixels so far;
\* each line has a decoder of its own
RECURSIVE PackedLines(_, _, _, _, _, _)
PackedLines(data, height, row_bytes, odd, n, ret) ==
    IF height = 0 THEN [panic |-> "none", odd |-> odd, n |-> n, ret |-> ret]
    ELSE IF data = <<>>
    THEN [panic |-> "buffer too short", odd |-> odd, n |-> n, ret |-> ret]
    ELSE LET encoded_line == Head(data)
             wide == row_bytes > 250
             odd_size == IF wide THEN odd ELSE Parity_flipped(odd)
             odd_line == (odd_size # (Len(encoded_line) % 2 = 1))
             unpacked == Decoder_decode(DecIdle, encoded_line)
         IN  IF DecoderFinalize(unpacked.st).kind # "Ok"
             THEN [panic |-> "finalize", odd |-> odd_line, n |-> n, ret |-> ret]
             ELSE IF Len(unpacked.out) % 3 # 0
             THEN [panic |-> "assert_eq", odd |-> odd_line, n |-> n, ret |-> ret]
             ELSE PackedLines(Tail(data), height - 1, row_bytes, odd_line,
                              n + (IF wide THEN 2 ELSE 1) + Len(encoded_line),
                              ret \o Interleave(unpacked.out))

\* the DirectBitsRect arm; the bytes counted are those after the tag
DirectBitsRect_parse(op) ==
    LET pix == op.pix
        row_bytes == pix.row_bytes_and_flag % 16384
        fixed == 50 + 8 + 8 + 2
        exact == pix.bottom - pix.top
        bound_height == IF exact < 0 THEN exact + 2^16 ELSE exact
    IN  IF PixMap_parse(pix) # "none" THEN Aborted(PixMap_parse(pix))
        ELSE skip_reserved(op.reserved,
        IF pix.base_addr # 255 THEN Aborted("incompatible base address")
        ELSE IF exact < 0 /\ overflow_checks THEN Aborted("overflow")
        ELSE IF pix.pack_type = 1
        THEN LET size == row_bytes * bound_height
                 pix_data == SubSeq(Flatten(op.data), 1, size)
             IN
             IF size > SumLen(op.data) THEN Aborted("buffer too short")
             ELSE IF size % 2 = 1
             THEN skip_filler(op.fill, DoneWith(fixed + size + 1, pix_data))
             ELSE DoneWith(fixed + size, pix_data)
        ELSE IF pix.pack_type = 4
        THEN LET lines == PackedLines(op.data, bound_height, row_bytes, FALSE, 0,
                                      <<>>)
             IN
             IF lines.panic # "none" THEN Aborted(lines.panic)
             ELSE IF lines.odd
             THEN skip_filler(op.fill, DoneWith(fixed + lines.n + 1, lines.ret))
             ELSE DoneWith(fixed + lines.n, lines.ret)
        ELSE Aborted("unsupported pack type"))

\* ImageDescription::parse: it reads RAW_SIZE bytes
ImageDescription_parse(qt) ==
    IF qt.struct_size # 86 THEN Aborted("unexpected struct size")
    ELSE IF qt.name_size > 31 THEN Aborted("split_off")
    ELSE IF ~qt.name_utf8 THEN Error("InvalidUTF8Format", 0)
    ELSE Done(RAW_SIZE)

\* the CompressedQuickTime arm; the bytes counted are those after the tag
CompressedQuickTime_parse(op) ==
    LET qt == op.qt
        fixed == 4 + 2 + 36 + 4 + 8 + 2 + 8 + 4 + 4
        img_desc == ImageDescription_parse(qt)
        exact == qt.size - qt.data_size - 68 - RAW_SIZE
        read == fixed + qt.mask_size + RAW_SIZE + qt.data_size
        data == [i \in 1..qt.data_size |-> 0]
    IN  IF qt.size % 2 # 0 THEN Aborted("uneven size so padding is wrong")
        ELSE IF qt.matte_size > 0
        THEN Aborted("doc not precise on how to handle matte")
        ELSE IF img_desc.res # "Ok" THEN img_desc
        ELSE IF exact < 0
        THEN IF overflow_checks THEN Aborted("overflow")
             ELSE Aborted("too much padding")
        ELSE IF exact > 1 THEN Aborted("too much padding")
        ELSE IF exact # 0 THEN skip_filler(op.fill, DoneWith(read + 1, data))
        ELSE DoneWith(read, data)

\* the match of Operation::parse: the operands of the operation
Operands(op) ==
    IF op.tag \in {Nop, VersionOp, DefHilite, OpEndPic, Version} THEN Done(0)
    ELSE IF op.tag = Clip THEN Done(2 + 8)
    ELSE IF op.tag \in {TxFont, TxSize} THEN Done(2)
    ELSE IF op.tag = TxFace THEN skip_filler(op.fill, Done(1 + 1))
    ELSE IF op.tag = PnSize THEN Done(4)
    ELSE IF op.tag = TxRatio THEN Done(4 + 4)
    ELSE IF op.tag = LongText
    THEN IF op.count % 2 = 0
         THEN skip_filler(op.fill, Done(4 + 1 + op.count + 1))
         ELSE Done(4 + 1 + op.count)
    ELSE IF op.tag = DirectBitsRect THEN DirectBitsRect_parse(op)
    ELSE IF op.tag = LongComment THEN Done(2 + 2 + op.size)
    ELSE IF op.tag = HeaderOp
    THEN skip_reserved(op.reserved, Done(2 + 2 + 4 + 4 + 8 + 4))
    ELSE CompressedQuickTime_parse(op)

\* the end of Operation::parse, once the match gave `operands`: the
\* assertion on the bytes consumed, tag included
assert_aligned(operands) ==
    IF operands.res # "Ok" THEN operands
    ELSE IF (2 + operands.consumed) % 2 # 0
    THEN Aborted("should be 2 bytes aligned")
    ELSE DoneWith(2 + operands.consumed, operands.data)

\* Operation::parse on a buffer that holds the operation
Operation_parse(op) ==
    IF op.tag < 0 THEN Aborted("buffer too short")
    ELSE IF op.tag \notin Opcode THEN Error("UnsupportedOpcode", op.tag)
    ELSE assert_aligned(Operands(op))


(***************************************************************************)
(* Operation::parse on a buffer that ends inside the operation.            *)
(***************************************************************************)
\* one read of `n` bytes: "get" is a read of Buf (get_u8, get_u16, get_i16,
\* get_u32, copy_to_slice), "ensure" a parse that starts with
\* ensure_remains_bytes, "decode" the text of a LongText, "io" the
\* ImageDescription
Field(how, n) == [how |-> how, n |-> n]

\* the reads of the lines of pack type 4: the length, then the line
RECURSIVE LineFields(_, _, _)
LineFields(data, height, row_bytes) ==
    IF height = 0 \/ data = <<>> THEN <<>>
    ELSE <<Field("get", IF row_bytes > 250 THEN 2 ELSE 1),
           Field("get", Len(Head(data)))>>
         \o LineFields(Tail(data), height - 1, row_bytes)

\* the bytes `fields` read
RECURSIVE FieldsLen(_)
FieldsLen(fields) ==
    IF fields = <<>> THEN 0 ELSE Head(fields).n + FieldsLen(Tail(fields))

\* the reads Operation::parse makes, in order, on an operation whose fields
\* pass every check: the tag, then the operands
Reads(op) ==
    LET pix == op.pix
        row_bytes == pix.row_bytes_and_flag % 16384
        height == pix.bottom - pix.top
        qt == op.qt
    IN
    <<Field("get", 2)>> \o
    (IF op.tag \in {Nop, VersionOp, DefHilite, OpEndPic, Version} THEN <<>>
     ELSE IF op.tag = Clip THEN <<Field("get", 2), Field("ensure", 8)>>
     ELSE IF op.tag \in {TxFont, TxSize} THEN <<Field("get", 2)>>
     ELSE IF op.tag = TxFace THEN <<Field("get", 1), Field("get", 1)>>
     ELSE IF op.tag = PnSize THEN <<Field("ensure", 4)>>
     ELSE IF op.tag = TxRatio THEN <<Field("ensure", 4), Field("ensure", 4)>>
     ELSE IF op.tag = LongText
     THEN <<Field("ensure", 4), Field("get", 1), Field("decode", op.count)>>
          \o (IF op.count % 2 = 0 THEN <<Field("get", 1)>> ELSE <<>>)
     ELSE IF op.tag = DirectBitsRect
     THEN <<Field("ensure", 50), Field("ensure", 8), Field("ensure", 8),
            Field("get", 2)>>
          \o (IF pix.pack_type = 1 THEN <<Field("get", row_bytes * height)>>
              ELSE LineFields(op.data, height, row_bytes))
     ELSE IF op.tag = LongComment
     THEN <<Field("get", 2), Field("get", 2), Field("get", op.size)>>
     ELSE IF op.tag = HeaderOp
     THEN <<Field("get", 2), Field("ensure", 2), Field("get", 4), Field("get", 4),
            Field("ensure", 8), Field("ensure", 4)>>
     ELSE <<Field("get", 4), Field("get", 2), Field("ensure", 36), Field("get", 4),
            Field("ensure", 8), Field("get", 2), Field("ensure", 8),
            Field("get", 4), Field("get", 4), Field("get", qt.mask_size),
            Field("io", RAW_SIZE), Field("get", qt.data_size)>>)

\* the reads with the filler that ends the operation when it takes
\* `consumed` bytes
with_filler(fields, consumed) ==
    IF consumed > FieldsLen(fields) THEN Append(fields, Field("get", 1))
    ELSE fields

\* the reads `fields` on a buffer of `held` bytes that ends inside them: a
\* Buf read of more bytes than remain panics, ensure_remains_bytes and the
\* decoding loop of LongText return UnexpectedEOB, the reader of the
\* ImageDescription an I/O error
RECURSIVE read_fields(_, _)
read_fields(fields, held) ==
    IF fields = <<>> THEN Done(held)
    ELSE IF Head(fields).n <= held
    THEN read_fields(Tail(fields), held - Head(fields).n)
    ELSE IF Head(fields).how = "get" THEN Aborted("buffer too short")
    ELSE IF Head(fields).how = "io" THEN Error("Io", 0)
    ELSE Error("UnexpectedEOB", 0)

\* Operation::parse on the first op.cut bytes of an operation that parses
\* and takes `consumed` bytes
Operation_parse_cut(op, consumed) ==
    read_fields(with_filler(Reads(op), consumed), op.cut)

(***************************************************************************)
(* The operations a resource can hold.                                     *)
(***************************************************************************)
\* largest size field of a LongComment
MaxComment == 3
\* most encoded lines a DirectBitsRect holds
MaxLines == 2
\* largest mask_size of a CompressedQuickTime
MaxMask == 2
\* largest data_size of an ImageDescription
MaxData == 3
\* most operations the loop of PICT::parse takes
MaxOps == 2

\* a PixMap, a Rectangle and a CompressedQuickTime that parse
GoodPix ==
    [base_addr |-> 255, row_bytes_and_flag |-> 2, top |-> 0, bottom |-> 1,
     version |-> 0, pack_type |-> 4, pack_size |-> 0, pixel_type |-> 16]
GoodRect == [top |-> 0, left |-> 0, bottom |-> 1, right |-> 1]
GoodQt ==
    [size |-> 68 + RAW_SIZE, matte_size |-> 0, mask_size |-> 0,
     struct_size |-> 86, name_size |-> 0, name_utf8 |-> TRUE, data_size |-> 0]

\* the operation of tag `tag` with operands that parse; `cut` is the number
\* of bytes the buffer holds when it ends inside the operation, and -1 when
\* it holds the whole of it; `text` is the bytes of the text of a LongText
BaseOp(tag) ==
    [tag |-> tag, fill |-> 0, reserved |-> 0, count |-> 0, size |-> 0,
     version |-> -2, pix |-> GoodPix, dst |-> GoodRect, data |-> <<>>,
     qt |-> GoodQt, cut |-> -1, text |-> <<>>]

\* before the first operation is read, and a resource without bytes left
Unread == BaseOp(-1)
NoBytes == BaseOp(-2)

\* a filler byte: zero or not
Fills == {0, 1}

\* tags without operand the parse looks at, and a tag that is no opcode
Plain ==
    {BaseOp(tag) : tag \in {Nop, Clip, TxFont, PnSize, TxSize, TxRatio, VersionOp,
                            DefHilite, OpEndPic, Version, 2}}
TxFaces == {[BaseOp(TxFace) EXCEPT !.fill = f] : f \in Fills}
\* with a text of ASCII letters
LongTexts ==
    {[BaseOp(LongText) EXCEPT !.count = c, !.fill = f, !.text = [k \in 1..c |-> 97]] :
       c \in {0, 1, 2, 255}, f \in Fills}
LongComments == {[BaseOp(LongComment) EXCEPT !.size = n] : n \in 0..MaxComment}
\* with reserved fields that hold zeros, or a byte that is not zero
HeaderOps ==
    {[BaseOp(HeaderOp) EXCEPT !.version = v, !.reserved = r] :
        v \in {-2, -1, 2}, r \in {0, 1}}

\* encoded lines: empty, a control byte alone, one literal byte, a run of
\* three, six literal bytes
EncodedLines == {<<>>, <<0>>, <<0, 7>>, <<254, 9>>, <<5, 1, 2, 3, 4, 5, 6>>}
\* pixel maps that parse, for lines that are packed
PackedPixMaps ==
    {[GoodPix EXCEPT !.row_bytes_and_flag = r, !.bottom = b] : r \in {2, 252}, b \in 0..MaxLines}
\* pixel maps that parse, for lines that are not packed; with the "pointed
\* is pixmap record" flag; with a bottom above the top
OtherPixMaps ==
    {[GoodPix EXCEPT !.pack_type = 1, !.bottom = b] : b \in 0..MaxLines}
    \cup {[GoodPix EXCEPT !.row_bytes_and_flag = 2 + 32768],
          [GoodPix EXCEPT !.row_bytes_and_flag = 2 + 32768, !.pack_type = 1],
          [GoodPix EXCEPT !.top = 1, !.bottom = 0],
          [GoodPix EXCEPT !.top = 1, !.bottom = 0, !.pack_type = 1]}
\* pixel maps that do not parse, or that DirectBitsRect refuses
BadPixMaps ==
    {[GoodPix EXCEPT !.base_addr = 0], [GoodPix EXCEPT !.row_bytes_and_flag = 3],
     [GoodPix EXCEPT !.row_bytes_and_flag = 2 + 16384],
     [GoodPix EXCEPT !.row_bytes_and_flag = 3 + 32768],
     [GoodPix EXCEPT !.version = 1], [GoodPix EXCEPT !.pack_type = 5],
     [GoodPix EXCEPT !.pack_type = 0, !.pack_size = 1],
     [GoodPix EXCEPT !.pack_type = 0], [GoodPix EXCEPT !.pack_type = 2],
     [GoodPix EXCEPT !.pixel_type = 1]}
\* packed lines as many as the pixel map has rows, or one fewer; other data
\* with the other pixel maps; a destination and a filler of their own
DirectBitsRects ==
    {op \in {[BaseOp(DirectBitsRect) EXCEPT !.pix = pix, !.data = data] :
                pix \in PackedPixMaps, data \in SeqsUpTo(EncodedLines, MaxLines)} :
        Len(op.data) \in {op.pix.bottom - 1, op.pix.bottom}}
    \cup {[BaseOp(DirectBitsRect) EXCEPT !.pix = pix, !.data = data] :
            pix \in OtherPixMaps \cup BadPixMaps,
            data \in {<<>>, <<<<0, 7>>>>, <<<<2, 1, 2, 3>>>>}}
    \cup {[BaseOp(DirectBitsRect) EXCEPT !.data = <<<<254, 9>>>>,
                                         !.dst = [GoodRect EXCEPT !.left = 2]],
          [BaseOp(DirectBitsRect) EXCEPT !.data = <<<<254, 9>>>>, !.fill = 1],
          [BaseOp(DirectBitsRect) EXCEPT !.data = <<<<254, 9>>>>, !.reserved = 1]}

Qts ==
    {[GoodQt EXCEPT !.size = n, !.mask_size = k, !.data_size = d] :
        n \in {100, 153, 154, 156}, k \in 0..MaxMask, d \in 0..MaxData}
    \cup {[GoodQt EXCEPT !.matte_size = 1], [GoodQt EXCEPT !.struct_size = 0],
          [GoodQt EXCEPT !.name_size = 31], [GoodQt EXCEPT !.name_size = 32],
          [GoodQt EXCEPT !.name_utf8 = FALSE]}
CompressedQuickTimes ==
    {[BaseOp(CompressedQuickTime) EXCEPT !.qt = qt, !.fill = f] : qt \in Qts, f \in Fills}

Operations ==
    Plain \cup TxFaces \cup LongTexts \cup LongComments \cup HeaderOps
          \cup DirectBitsRects \cup CompressedQuickTimes

(***************************************************************************)
(* pict-decoder/src/pict.rs: PICT::parse.                                  *)
(***************************************************************************)
\* what read_operations does with the outcome `parsed` of the parse of `op`,
\* `trailing` telling whether a byte follows it
yield_unchecked(op, trailing, parsed) == parsed
yield(op, trailing, parsed) ==
    IF parsed.res # "Ok" THEN parsed
    ELSE IF op.tag = OpEndPic /\ trailing THEN Error("DataRemaining", 0)
    ELSE parsed

\* one turn of the stream of read_operations: the operation is parsed, then
\* yielded
read_operations(op, trailing) == yield(op, trailing, Operation_parse(op))

\* the opcodes expect_op is called with, in order
Expected == <<VersionOp, Version, HeaderOp>>

\* operations the loop of PICT::parse passes over
Ignored ==
    {Nop, DefHilite, Clip, TxFont, TxFace, PnSize, TxSize, TxRatio, LongText,
     LongComment}

\* PICT::parse ends with `r`
Return(r) ==
    /\ ppc' = "returned"
    /\ pres' = [res |-> r.res, kind |-> r.kind, arg |-> r.arg]

\* a PICT resource is handed to PICT::parse
InitPict ==
    /\ overflow_checks \in BOOLEAN
    /\ EncParked /\ DecFresh /\ MohawkParked
    /\ readers = <<>> /\ queue = <<>> /\ handler = NoHandler
    /\ TakeParked
    /\ ppc = "header" /\ header = "unread" /\ more = TRUE
    /\ opin = Unread /\ opout = NotParsed
    /\ seen = <<>> /\ nops = 0 /\ found = NoImage /\ pres = NoOutcome
    /\ decoding = NoText

\* the 512-byte header, the size and the bounding rectangle, whose parse
\* result is dropped
ReadHeader ==
    /\ ppc = "header"
    /\ \E h \in {"zero", "nonzero", "short"}, m \in BOOLEAN :
        /\ header' = h
        /\ IF h = "short" THEN Return(Error("Reader", 0)) /\ more' = FALSE
           ELSE IF h = "nonzero" THEN Return(Error("NonEmptyHeader", 0)) /\ more' = m
           ELSE ppc' = "expect" /\ more' = m /\ UNCHANGED pres
    /\ UNCHANGED <<opin, opout, seen, nops, found, decoding>>
    /\ UNCHANGED <<tvars, overflow_checks, pbvars, dvars, mvars, rvars>>

\* the operations the resource can hold next
Next_operations == IF more THEN Operations ELSE {NoBytes}

\* one call of expect_op, and the check of the version after the third
ExpectOp ==
    /\ ppc = "expect"
    /\ \E op \in Next_operations, trailing \in BOOLEAN :
        LET expected == Expected[Len(seen) + 1]
            item == read_operations(op, trailing)
        IN  /\ op = NoBytes => ~trailing
            /\ opin' = op /\ opout' = Operation_parse(op) /\ more' = trailing
            /\ IF item.res # "Ok" THEN Return(item) /\ UNCHANGED seen
               ELSE IF op.tag # expected
               THEN Return(Error("UnexpectedOpcode", op.tag)) /\ UNCHANGED seen
               ELSE IF expected = HeaderOp /\ op.version # -2
               THEN Return(Error("UnsupportedHeaderVersion", op.version))
                    /\ UNCHANGED seen
               ELSE /\ seen' = Append(seen, [tag |-> op.tag, version |-> op.version])
                    /\ ppc' = IF Len(seen) + 1 = Len(Expected) THEN "ops" ELSE "expect"
                    /\ UNCHANGED pres
    /\ UNCHANGED <<header, nops, found, decoding>>
    /\ UNCHANGED <<tvars, overflow_checks, pbvars, dvars, mvars, rvars>>

\* one turn of the loop over the operations
ExecOp ==
    /\ ppc = "ops" /\ nops < MaxOps
    /\ \E op \in Next_operations, trailing \in BOOLEAN :
        LET item == read_operations(op, trailing)
            image ==
                IF op.tag = CompressedQuickTime
                THEN [kind |-> "JPEG", width |-> 0, height |-> 0, data |-> opout'.data]
                ELSE [kind |-> "RGB24",
                      width |-> (op.dst.right - op.dst.left) % 2^16,
                      height |-> (op.dst.bottom - op.dst.top) % 2^16,
                      data |-> opout'.data]
        IN  /\ op = NoBytes => ~trailing
            /\ opin' = op /\ opout' = Operation_parse(op) /\ more' = trailing
            /\ IF item.res # "Ok" THEN Return(item) /\ UNCHANGED <<nops, found>>
               ELSE IF op.tag \in Ignored
               THEN nops' = nops + 1 /\ UNCHANGED <<ppc, pres, found>>
               ELSE IF op.tag \in {CompressedQuickTime, DirectBitsRect}
               THEN IF found # NoImage
                    THEN Return(Aborted("already got an image")) /\ UNCHANGED <<nops, found>>
                    ELSE IF /\ op.tag = DirectBitsRect /\ overflow_checks
                            /\ \/ op.dst.right < op.dst.left
                               \/ op.dst.bottom < op.dst.top
                    THEN Return(Aborted("overflow")) /\ UNCHANGED <<nops, found>>
                    ELSE found' = image /\ nops' = nops + 1 /\ UNCHANGED <<ppc, pres>>
               ELSE IF op.tag \in {VersionOp, Version, HeaderOp}
               THEN Return(Error("UnexpectedOpcode", op.tag)) /\ UNCHANGED <<nops, found>>
               ELSE /\ Return(IF found = NoImage THEN Error("UnableToFindImage", 0)
                              ELSE [res |-> "Ok", kind |-> found.kind, arg |-> 0])
                    /\ UNCHANGED <<nops, found>>
    /\ UNCHANGED <<header, seen, decoding>>
    /\ UNCHANGED <<tvars, overflow_checks, pbvars, dvars, mvars, rvars>>

NextPict == ReadHeader \/ ExpectOp \/ ExecOp

SpecPict == InitPict /\ [][NextPict]_vars


(***************************************************************************)
(* Claims on the operations and on PICT::parse.                            *)
(***************************************************************************)
\* Operation::parse was called on a recognised opcode whose operands parsed
OperandsParsed == opin.tag \in Opcode /\ Operands(opin).res = "Ok"
\* bytes the call consumed: the tag, the operands and the filler
ConsumedBytes == 2 + Operands(opin).consumed

\* C19: for every recognised opcode and every operand content the bytes
\* Operation::parse consumes (tag, operands, trailing filler) are even in
\* number and the alignment assertion at the end of the parse does not
\* fail, LongComment with an odd size and CompressedQuickTime with a mask
\* included.
C19_EvenConsumption ==
    OperandsParsed =>
        /\ ConsumedBytes % 2 = 0
        /\ opout.kind # "should be 2 bytes aligned"

\* the two operations without the filler they need
OddComment == opin.tag = LongComment /\ opin.size % 2 = 1
OddMask == opin.tag = CompressedQuickTime /\ opin.qt.mask_size % 2 = 1

\* every other operation consumes an even number of bytes, and these two an
\* odd one
C19_EvenButTwo ==
    OperandsParsed =>
        /\ (ConsumedBytes % 2 = 0) <=> ~(OddComment \/ OddMask)
        /\ (opout.kind = "should be 2 bytes aligned") <=> (OddComment \/ OddMask)
        /\ opout.res = "Ok" => opout.consumed = ConsumedBytes


\* PICT::parse returned, and returned a picture
Returned == ppc = "returned"
Accepted == Returned /\ pres.res = "Ok"
Rejected(kind, arg) == pres = [res |-> "Err", kind |-> kind, arg |-> arg]

\* the three operations a resource starts with
Preamble ==
    /\ Len(seen) = 3
    /\ seen[1].tag = VersionOp /\ seen[2].tag = Version
    /\ seen[3].tag = HeaderOp /\ seen[3].version = -2

\* PICT::parse returned while the k-th operation, k <= 3, was expected, on an
\* operation of a recognised opcode whose operands parsed
ReturnedInPreamble ==
    /\ Returned /\ header = "zero" /\ Len(seen) < 3
    /\ OperandsParsed

\* a picture is returned only for a zero header and the three operations
AcceptsOnly == Accepted => (header = "zero" /\ Preamble)
\* a header that is not zero is refused before any operation is read
HeaderFirst ==
    (Returned /\ header = "nonzero") =>
        (Rejected("NonEmptyHeader", 0) /\ opin = Unread /\ seen = <<>>)
\* a HeaderOp in the third place whose version is not -2
HeaderVersion ==
    (ReturnedInPreamble /\ Len(seen) = 2 /\ opin.tag = HeaderOp) =>
        (opin.version # -2 /\ Rejected("UnsupportedHeaderVersion", opin.version))

\* C20: PICT::parse returns a picture only if the 512 bytes of the header are
\* zero (NonEmptyHeader otherwise, before any opcode is read) and the first
\* three opcodes are VersionOp, Version, HeaderOp in this order, with a
\* HeaderOp version of -2 (UnsupportedHeaderVersion otherwise); another
\* recognised opcode in one of the three places gives UnexpectedOpcode with
\* the number of that opcode.
C20_Preamble ==
    /\ AcceptsOnly /\ HeaderFirst /\ HeaderVersion
    /\ (ReturnedInPreamble /\ opin.tag # Expected[Len(seen) + 1]) =>
            Rejected("UnexpectedOpcode", opin.tag)

\* what holds of another recognised opcode in one of the three places: an
\* OpEndPic followed by a byte gives DataRemaining, a LongComment of odd size
\* and a CompressedQuickTime with an odd mask fail the alignment assertion,
\* and every other one gives UnexpectedOpcode
C20_PreambleButThree ==
    /\ AcceptsOnly /\ HeaderFirst /\ HeaderVersion
    /\ (ReturnedInPreamble /\ opin.tag # Expected[Len(seen) + 1]) =>
            IF opin.tag = OpEndPic /\ more THEN Rejected("DataRemaining", 0)
            ELSE IF OddComment \/ OddMask
            THEN pres.res = "panic" /\ pres.kind = "should be 2 bytes aligned"
            ELSE Rejected("UnexpectedOpcode", opin.tag)


\* the loop over the operations takes a turn in this step
InLoop == ppc = "ops"
\* the operation the turn read is one the loop passes over, and the filler
\* it holds, if any, is zero
IgnoredRead ==
    /\ opin'.tag \in Ignored
    /\ Operands(opin').kind # "InvalidFiller"
\* the turn leaves the image and the result as they were and the loop goes on
PassedOver == ppc' = "ops" /\ found' = found /\ pres' = pres
\* one of the three operations of the preamble met in the loop is refused
PreambleRefused ==
    opin'.tag \in {VersionOp, Version, HeaderOp} =>
        /\ ppc' = "returned" /\ found' = found
        /\ pres' = [res |-> "Err", kind |-> "UnexpectedOpcode", arg |-> opin'.tag]

\* C21: after the three operations of the preamble a VersionOp, Version or
\* HeaderOp makes the parse fail with UnexpectedOpcode, and each of Nop,
\* DefHilite, Clip, TxFont, TxFace, PnSize, TxSize, TxRatio, LongText and
\* LongComment is parsed and passed over: the image found so far and the
\* result are left as they were and the loop goes on.
C21_IgnoredDiscarded ==
    [][InLoop => (PreambleRefused /\ (IgnoredRead => PassedOver))]_vars

\* what holds instead: a LongComment of odd size ends the parse on the
\* alignment assertion, every other ignored operation is passed over
C21_DiscardedButOdd ==
    [][InLoop =>
        /\ PreambleRefused
        /\ IgnoredRead =>
            IF opin'.tag = LongComment /\ opin'.size % 2 = 1
            THEN /\ ppc' = "returned" /\ found' = found
                 /\ pres'.res = "panic"
                 /\ pres'.kind = "should be 2 bytes aligned"
            ELSE PassedOver]_vars


\* the two operations that hold an image
ImageOps == {DirectBitsRect, CompressedQuickTime}
\* PICT::parse returned on an image operation that parsed, met after another
\* image was found
SecondImage ==
    /\ Returned /\ opin.tag \in ImageOps /\ opout.res = "Ok"
    /\ found # NoImage
\* PICT::parse returned on an OpEndPic that no byte follows, met in the loop
EndOfPicture ==
    /\ Returned /\ Preamble /\ opin.tag = OpEndPic /\ ~more
\* a picture is returned only at OpEndPic, with the one image found, and an
\* OpEndPic met before any image gives UnableToFindImage
OneImageAtEnd ==
    /\ Accepted => (EndOfPicture /\ found # NoImage /\ pres.kind = found.kind)
    /\ (EndOfPicture /\ found = NoImage) => Rejected("UnableToFindImage", 0)

\* C22: PICT::parse returns an image only when one image operation was met
\* between the preamble and OpEndPic; OpEndPic without an image gives
\* UnableToFindImage; a second image operation, of either kind, is reported
\* to the caller as an error and the first image is left as it was.
C22_OneImage ==
    /\ OneImageAtEnd
    /\ SecondImage => pres.res = "Err"

\* what holds instead: the second image operation is a panic, never a value
\* of Result
C22_OneImageOrPanic ==
    /\ OneImageAtEnd
    /\ SecondImage => (pres.res = "panic" /\ pres.kind = "already got an image")


\* PICT::parse returned on an OpEndPic, whose operands are none
AtEndPic == Returned /\ opin.tag = OpEndPic
\* with a byte left the result is DataRemaining, image or not; with none the
\* loop ends with the image or with UnableToFindImage (and in the preamble
\* the OpEndPic is not the operation expected)
EndPicOutcome ==
    AtEndPic =>
        IF more THEN Rejected("DataRemaining", 0)
        ELSE IF Preamble
        THEN IF found = NoImage THEN Rejected("UnableToFindImage", 0)
             ELSE Accepted /\ pres.kind = found.kind
        ELSE Rejected("UnexpectedOpcode", OpEndPic)

\* C23: when OpEndPic is parsed and one more byte can be read the parse
\* fails with DataRemaining, even if an image was found; when no byte is
\* left the loop ends at OpEndPic, and once PICT::parse has returned no
\* further operation is parsed.
C23_EndPic == [][~Returned /\ EndPicOutcome']_vars
\* an OpEndPic followed by a byte was met after an image was found
C23_Witness ==
    /\ AtEndPic /\ more /\ Preamble /\ found # NoImage
    /\ Rejected("DataRemaining", 0)



\* C25: every RGB24 image PICT::parse returns has len(data) = 3 * width *
\* height, width and height being those of the destination rectangle of the
\* DirectBitsRect, for pack type 1 as for pack type 4; every JPEG image it
\* returns has at least one byte.
C25_ImageSize ==
    Accepted =>
        IF found.kind = "RGB24"
        THEN Len(found.data) = 3 * found.width * found.height
        ELSE Len(found.data) > 0

\* what holds instead: an image is returned with the bytes the operation
\* held, as many as there are, and packed lines give whole pixels
C25_ImageAsHeld ==
    Accepted =>
        /\ found.kind \in {"RGB24", "JPEG"}
        /\ found.kind = "JPEG" => Len(found.data) \in 0..MaxData
        /\ found.kind = "RGB24" =>
            \/ Len(found.data) % 3 = 0
            \/ Len(found.data) % 2 = 0


(***************************************************************************)
(* The two parsers of operations: Operation::parse of pict-decoder, above, *)
(* and Operation::parse of mohawk/pict.rs, each called on one operation.   *)
(***************************************************************************)
\* mohawk/pict.rs skip_filler on the byte `fill`, then `next`
mohawk_skip_filler(fill, next) ==
    IF fill # 0 THEN Aborted("invalid filler") ELSE next

\* mohawk/pict.rs Operation::parse: its arms are those of pict-decoder, but
\* its Opcode has no DirectBitsRect and its fillers go through the
\* skip_filler of its own file
mohawk_Operation_parse(op) ==
    LET parsed == Operation_parse(op) IN
    IF op.tag = DirectBitsRect THEN Error("UnsupportedOpcode", op.tag)
    ELSE IF parsed.kind = "InvalidFiller"
    THEN mohawk_skip_filler(op.fill, parsed)
    ELSE parsed

\* one operation is handed to one of the two parsers
InitFiller ==
    /\ overflow_checks \in BOOLEAN
    /\ EncParked /\ DecFresh /\ MohawkParked
    /\ readers = <<>> /\ queue = <<>> /\ handler = NoHandler
    /\ TakeParked
    /\ ppc = "call" /\ header = "unread" /\ more = FALSE
    /\ opin \in Operations /\ opout = NotParsed
    /\ seen = <<>> /\ nops = 0 /\ found = NoImage /\ pres = NoOutcome
    /\ decoding = NoText

\* Operation::parse of pict-decoder
ParseInDecoder ==
    /\ ppc = "call"
    /\ ppc' = "pict-decoder" /\ opout' = Operation_parse(opin)
    /\ UNCHANGED <<header, more, opin, seen, nops, found, pres, decoding>>
    /\ UNCHANGED <<tvars, overflow_checks, pbvars, dvars, mvars, rvars>>

\* Operation::parse of mohawk/pict.rs
ParseInCrate ==
    /\ ppc = "call"
    /\ ppc' = "mohawk" /\ opout' = mohawk_Operation_parse(opin)
    /\ UNCHANGED <<header, more, opin, seen, nops, found, pres, decoding>>
    /\ UNCHANGED <<tvars, overflow_checks, pbvars, dvars, mvars, rvars>>

NextFiller == ParseInDecoder \/ ParseInCrate

SpecFiller == InitFiller /\ [][NextFiller]_vars

\* the operations that parse, each cut after every number of bytes smaller
\* than its own
CutOperations ==
    UNION {{[op EXCEPT !.cut = c] : c \in 0..(Operation_parse(op).consumed - 1)} :
             op \in {w \in Operations : Operation_parse(w).res = "Ok"}}

\* one operation that parses, in a buffer that ends inside it
InitCut ==
    /\ overflow_checks \in BOOLEAN
    /\ EncParked /\ DecFresh /\ MohawkParked
    /\ readers = <<>> /\ queue = <<>> /\ handler = NoHandler
    /\ TakeParked
    /\ ppc = "call" /\ header = "unread" /\ more = FALSE
    /\ opin \in CutOperations /\ opout = NotParsed
    /\ seen = <<>> /\ nops = 0 /\ found = NoImage /\ pres = NoOutcome
    /\ decoding = NoText

\* Operation::parse of pict-decoder on the buffer that was cut
ParseCut ==
    /\ ppc = "call"
    /\ ppc' = "pict-decoder"
    /\ opout' = Operation_parse_cut(opin, Operation_parse(opin).consumed)
    /\ UNCHANGED <<header, more, opin, seen, nops, found, pres, decoding>>
    /\ UNCHANGED <<tvars, overflow_checks, pbvars, dvars, mvars, rvars>>

NextCut == ParseCut

SpecCut == InitCut /\ [][NextCut]_vars

(***************************************************************************)
(* src/pict-decoder/src/operation.rs: the loop of Operation::parse that    *)
(* decodes the text of a LongText from windows-1252 into a String.         *)
(***************************************************************************)
\* the longest text drawn, and the turns of the loop that are followed
MaxText == 3
MaxTurns == 4

\* the bytes a text is made of: a space, the letter a, the euro sign (three
\* bytes of UTF-8) and e with an acute accent (two bytes of UTF-8)
TextBytes == {32, 97, 128, 233}

\* what decode_to_string_without_replacement gives: the result, the bytes
\* read from the chunk and the bytes written after the end of the String
Decoded(ret, read, written) == [ret |-> ret, read |-> read, written |-> written]

RECURSIVE decode_ascii(_, _, _, _)
RECURSIVE decode_non_ascii(_, _, _, _)
RECURSIVE decode_next(_, _, _, _)

\* the single-byte decoder on `src` with `room` bytes of output, `i` bytes
\* read and `w` written: ASCII bytes are copied while input and room last;
\* a byte above 127 is taken only when three bytes of room are left
decode_ascii(src, room, i, w) ==
    LET length == Min(room - w, Len(src) - i)
        stops == {k \in 1..length : src[i + k] > 127}
        c == (CHOOSE k \in stops : \A j \in stops : k <= j) - 1
    IN IF stops = {}
       THEN Decoded(IF room - w < Len(src) - i THEN "OutputFull" ELSE "InputEmpty",
                    i + length, w + length)
       ELSE IF w + c + 2 < room
       THEN decode_non_ascii(src, room, i + c + 1, w + c)
       ELSE Decoded("OutputFull", i + c, w + c)

\* the byte src[i], above 127, is written as two or three bytes of UTF-8;
\* the next byte is read when there is one and three bytes of room are left
decode_non_ascii(src, room, i, w) ==
    LET written == w + (IF src[i] = 128 THEN 3 ELSE 2) IN
    IF i = Len(src) THEN Decoded("InputEmpty", i, written)
    ELSE IF ~(written + 2 < room) THEN Decoded("OutputFull", i, written)
    ELSE decode_next(src, room, i + 1, written)

\* the byte src[i] read after a byte above 127 or after punctuation
decode_next(src, room, i, w) ==
    IF src[i] > 127 THEN decode_non_ascii(src, room, i, w)
    ELSE IF src[i] >= 60 THEN decode_ascii(src, room, i, w + 1)
    ELSE IF i = Len(src) THEN Decoded("InputEmpty", i, w + 1)
    ELSE IF ~(w + 1 + 2 < room) THEN Decoded("OutputFull", i, w + 1)
    ELSE decode_next(src, room, i + 1, w + 1)

\* the LongText operations with a text of up to MaxText bytes, whole or in a
\* buffer that ends inside the text
TextOperations ==
    UNION {{[BaseOp(LongText) EXCEPT !.count = Len(t), !.text = t, !.fill = f, !.cut = c] :
              f \in Fills, c \in {-1} \cup ((2 + 4 + 1)..(2 + 4 + 1 + Len(t) - 1))} :
             t \in SeqsUpTo(TextBytes, MaxText)}

\* a LongText is handed to Operation::parse of pict-decoder
InitText ==
    /\ overflow_checks \in BOOLEAN
    /\ EncParked /\ DecFresh /\ MohawkParked
    /\ readers = <<>> /\ queue = <<>> /\ handler = NoHandler
    /\ TakeParked
    /\ ppc = "call" /\ header = "unread" /\ more = FALSE
    /\ opin \in TextOperations /\ opout = NotParsed
    /\ seen = <<>> /\ nops = 0 /\ found = NoImage /\ pres = NoOutcome
    /\ decoding = NoText

\* the location and the count are read, the String is made with room for
\* `count` bytes
EnterText ==
    /\ ppc = "call" /\ opin.tag = LongText
    /\ ppc' = "long text"
    /\ decoding' = [count |-> opin.count, read |-> 0, len |-> 0,
                    capacity |-> opin.count, turns |-> 0]
    /\ UNCHANGED <<header, more, opin, opout, seen, nops, found, pres>>
    /\ UNCHANGED <<tvars, overflow_checks, pbvars, dvars, mvars, rvars>>

\* the end of one turn of the loop, the decoder having given `call`:
\* `count -= read`, then the match on the result, where text.reserve(1)
\* grows the String only when no byte of room is left
after_decode(call, last_chunk) ==
    /\ decoding' =
         [count |-> decoding.count - call.read,
          read |-> decoding.read + call.read,
          len |-> decoding.len + call.written,
          capacity |->
            IF call.ret = "OutputFull" /\ decoding.capacity = decoding.len + call.written
            THEN Max(2 * decoding.capacity, 8)
            ELSE decoding.capacity,
          turns |-> decoding.turns + 1]
    /\ IF call.ret = "OutputFull" THEN UNCHANGED <<ppc, opout>>
       ELSE /\ ppc' = "pict-decoder"
            /\ opout' = IF last_chunk THEN Operation_parse(opin)
                        ELSE Error("UnexpectedEOB", 0)

\* one turn of the loop
DecodeTurn ==
    /\ ppc = "long text" /\ decoding.turns < MaxTurns
    /\ LET chunk_len == IF opin.cut < 0 THEN decoding.count
                        ELSE opin.cut - (2 + 4 + 1) - decoding.read
           chunk_size == Min(chunk_len, decoding.count)
       IN after_decode(decode_ascii(SubSeq(opin.text, decoding.read + 1,
                                           decoding.read + chunk_size),
                                    decoding.capacity - decoding.len, 0, 0),
                       chunk_size = decoding.count)
    /\ UNCHANGED <<header, more, opin, seen, nops, found, pres>>
    /\ UNCHANGED <<tvars, overflow_checks, pbvars, dvars, mvars, rvars>>

NextText == EnterText \/ DecodeTurn

SpecText == InitText /\ [][NextText]_vars

\* one of the two parsers was called on opin
Parsed == ppc \in {"pict-decoder", "mohawk"}
\* the operation as it is with a filler of zero, and with reserved fields
\* of zeros
ZeroFilled == [opin EXCEPT !.fill = 0]
ZeroReserved == [opin EXCEPT !.reserved = 0]
\* what the parser called gives for `op`
ParseOf(op) ==
    IF ppc = "mohawk" THEN mohawk_Operation_parse(op) ELSE Operation_parse(op)
\* the parse of opin reads a filler: after a TxFace, after a LongText of even
\* count, and after pixel data or data when the parse, which succeeds with a
\* filler of zero, does not give the same with another filler
FillerRead ==
    \/ opin.tag = TxFace
    \/ opin.tag = LongText /\ opin.count % 2 = 0
    \/ /\ opin.tag \in ImageOps
       /\ ParseOf(ZeroFilled).res = "Ok"
       /\ ParseOf([opin EXCEPT !.fill = 1]) # ParseOf(ZeroFilled)
\* bytes of a reserved field that are not zero change nothing
ReservedIgnored == opout = ParseOf(ZeroReserved)

\* C24: a filler byte (after TxFace, LongText, the pixel data of a
\* DirectBitsRect or the data of a CompressedQuickTime) that is not zero
\* makes the parse of the operation fail with InvalidFiller carrying that
\* byte; bytes of a reserved field that are not zero leave the result of the
\* parse as it is for zeros.
C24_FillerAndReserved ==
    Parsed =>
        /\ (FillerRead /\ opin.fill # 0) => opout = Error("InvalidFiller", opin.fill)
        /\ ReservedIgnored

\* what holds instead: pict-decoder gives InvalidFiller, mohawk/pict.rs
\* panics; both pass over the reserved fields
C24_FillerByParser ==
    Parsed =>
        /\ (FillerRead /\ opin.fill # 0) =>
              IF ppc = "mohawk" THEN opout = Aborted("invalid filler")
              ELSE opout = Error("InvalidFiller", opin.fill)
        /\ ReservedIgnored


\* a CompressedQuickTime whose fields other than the sizes are accepted,
\* with a filler of zero
GoodQuickTime ==
    /\ opin.tag = CompressedQuickTime /\ opin.fill = 0
    /\ opin.qt.size % 2 = 0 /\ opin.qt.matte_size = 0
    /\ opin.qt.struct_size = 86 /\ opin.qt.name_size <= 31 /\ opin.qt.name_utf8
\* bytes from the end of the size field to the end of the data: the fixed
\* fields, the mask, the ImageDescription and the data
QtNeeds == 68 + opin.qt.mask_size + RAW_SIZE + opin.qt.data_size
\* bytes left for the filler
QtPadding == opin.qt.size - QtNeeds
\* the subtraction of the padding computation goes below zero
QtUnderflow == opin.qt.size - opin.qt.data_size - 68 - RAW_SIZE < 0

\* C26: the parse of a CompressedQuickTime whose size field is `size` reads
\* 0 or 1 filler byte after the data so that the length of the operation,
\* tag included and the size field itself left out, is size + 2, for every
\* even size, every mask_size and every data_size; a size that is smaller
\* than the fixed fields, the ImageDescription and the data does not wrap
\* around in the padding computation: the difference below zero is never
\* taken for a padding that is too large.
C26_QuickTimeLength ==
    (Parsed /\ GoodQuickTime) =>
        /\ QtPadding \in {0, 1} =>
              (opout.res = "Ok" /\ opout.consumed - 4 = opin.qt.size + 2)
        /\ QtUnderflow => opout.kind # "too much padding"

\* what holds instead: the length is size + 2 when there is no mask; a mask
\* is read and not counted, so the length is larger by mask_size (and the
\* parse ends on the alignment assertion when that is odd); a size that is
\* too small panics on the subtraction, or wraps around and panics on
\* "too much padding"
C26_LengthWithoutMask ==
    (Parsed /\ GoodQuickTime) =>
        LET padding == QtPadding + opin.qt.mask_size IN
        IF QtUnderflow
        THEN opout = Aborted(IF overflow_checks THEN "overflow"
                             ELSE "too much padding")
        ELSE IF padding \notin {0, 1} THEN opout = Aborted("too much padding")
        ELSE IF opin.qt.mask_size % 2 = 1
        THEN opout = Aborted("should be 2 bytes aligned")
        ELSE /\ opout.res = "Ok"
             /\ opout.consumed - 4 = opin.qt.size + 2 + opin.qt.mask_size


\* Operation::parse of pict-decoder was called on a DirectBitsRect
DirectBitsParsed == ppc = "pict-decoder" /\ opin.tag = DirectBitsRect
\* row_bytes and the number of rows of its PixMap
RowBytes == opin.pix.row_bytes_and_flag % 16384
Rows == opin.pix.bottom - opin.pix.top
\* bytes of the length of a row
PrefixLen == IF RowBytes > 250 THEN 2 ELSE 1
\* bytes read for the first `rows` rows of `data`, lengths included
RECURSIVE RowsRead(_, _)
RowsRead(data, rows) ==
    IF rows = 0 THEN 0
    ELSE PrefixLen + Len(Head(data)) + RowsRead(Tail(data), rows - 1)
\* bytes read for the pixel data
PixelBytesRead ==
    IF opin.pix.pack_type = 4 THEN RowsRead(opin.data, Rows) ELSE RowBytes * Rows
\* bytes before the pixel data: PixMap, two rectangles, mode
BeforePixels == 50 + 8 + 8 + 2

\* C29: for a DirectBitsRect of pack type 4 the length of each of the
\* bottom - top rows is read as a u16 when row_bytes > 250 and as a u8
\* otherwise, and one filler byte is read after the last row iff the bytes
\* read for the lengths and the rows are odd in number; for pack type 1
\* row_bytes * height bytes are read and a filler follows iff the product is
\* odd. The bytes of the operation are then even in number and the
\* alignment assertion does not fail.
C29_RowsAndFiller ==
    (DirectBitsParsed /\ opin.pix.pack_type \in {1, 4}) =>
        LET filler == IF PixelBytesRead % 2 = 1 THEN 1 ELSE 0 IN
        /\ opout.res = "Ok" =>
            /\ opout.consumed = 2 + BeforePixels + PixelBytesRead + filler
            /\ filler = 1 => opin.fill = 0
        /\ opout.kind = "InvalidFiller" => (filler = 1 /\ opout.arg = opin.fill)
        /\ opout.kind # "should be 2 bytes aligned"
\* two packed rows were read, and a filler after them
C29_Witness ==
    /\ DirectBitsParsed /\ opin.pix.pack_type = 4 /\ Rows = 2
    /\ RowBytes <= 250
    /\ opout.res = "Ok" /\ PixelBytesRead % 2 = 1
    /\ opout.consumed = 2 + BeforePixels + PixelBytesRead + 1


\* what a decoder that has decoded nothing yet gives for an encoded row
DecodedRow(encoded_line) == Decoder_decode(DecIdle, encoded_line).out
\* the pixels of a decoded row of length 3k, from the i-th on
RECURSIVE PixelsFrom(_, _)
PixelsFrom(row, i) ==
    LET k == Len(row) \div 3 IN
    IF i > k THEN <<>>
    ELSE <<row[i], row[k + i], row[2 * k + i]>> \o PixelsFrom(row, i + 1)
\* the pixels of the first `rows` rows of `data`, in the order of the rows
RECURSIVE PixelsOfRows(_, _)
PixelsOfRows(data, rows) ==
    IF rows = 0 THEN <<>>
    ELSE PixelsFrom(DecodedRow(Head(data)), 1) \o PixelsOfRows(Tail(data), rows - 1)

\* C30: for pack type 4 each row is PackBits-decoded by a decoder of its
\* own and, for a decoded row of length 3k, the k pixels appended to the
\* pixel buffer are (row[i], row[k+i], row[2k+i]) for i = 0..k-1 in this
\* order; the rows are appended in the order they are read.
C30_PlanarToPixels ==
    (DirectBitsParsed /\ opin.pix.pack_type = 4 /\ opout.res = "Ok") =>
        opout.data = PixelsOfRows(opin.data, Rows)
\* a row of one pixel and a row of two were read
C30_Witness ==
    /\ DirectBitsParsed /\ opin.pix.pack_type = 4 /\ Rows = 2
    /\ opin.data = <<<<254, 9>>, <<5, 1, 2, 3, 4, 5, 6>>>>
    /\ opout.res = "Ok" /\ opout.data = <<9, 9, 9, 1, 3, 5, 2, 4, 6>>


\* bits 14 and 15 of row_bytes_and_flag of the PixMap of opin
Bit14 == (opin.pix.row_bytes_and_flag \div 16384) % 2 = 1
Bit15 == opin.pix.row_bytes_and_flag \div 32768 = 1
\* the parse did not return an operation
Refused == opout.res # "Ok"

\* C31 as stated: once a DirectBitsRect is parsed, an odd row_bytes is
\* refused, every row_bytes_and_flag with bit 15 set is refused, and the
\* PixMap returned has pointed_is_pixmap_record set exactly when bit 14 is set
C31_RowBytesFlags ==
    DirectBitsParsed =>
        /\ RowBytes % 2 = 1 => Refused
        /\ Bit15 => Refused
        /\ ~Refused => (pointed_is_pixmap_record(opin.pix) <=> Bit14)

\* C31 as the code has it: row_bytes is bits 0-13 (rows that are not packed
\* hold row_bytes * height bytes), an odd row_bytes ends in the panic
\* "invalid row bytes", an even one with bit 14 set in the panic "unexpected
\* row bytes 15th bit", and the PixMap returned has pointed_is_pixmap_record
\* set exactly when bit 15 is set
C31_FlagsAsParsed ==
    DirectBitsParsed =>
        /\ RowBytes % 2 = 1 => opout = Aborted("invalid row bytes")
        /\ RowBytes % 2 = 0 /\ Bit14
              => opout = Aborted("unexpected row bytes 15th bit")
        /\ ~Refused => (pointed_is_pixmap_record(opin.pix) <=> Bit15)
        /\ ~Refused /\ opin.pix.pack_type = 1
              => Len(opout.data) = RowBytes * Rows
\* rows that are not packed were read with bit 15 set
C31_Witness ==
    /\ DirectBitsParsed /\ Bit15 /\ ~Refused
    /\ opin.pix.pack_type = 1 /\ opout.data = <<2, 1>>


\* the offset of the resource table of the k-th type the loop over
\* type_tables has visited
VisitedOffset(k) == type_tables[k].resource_table_offset_in_resource_dir

\* C32 as stated: the per-type resource tables are visited in non-decreasing
\* order of resource_table_offset_in_resource_dir, whatever the order of the
\* entries of the type table
C32_SortedVisits ==
    \A i, j \in 1..Len(types_tables) :
        i < j => VisitedOffset(i) <= VisitedOffset(j)

\* C32, what holds: the types are visited in the order of the type table
C32_VisitsInFileOrder ==
    /\ Len(types_tables) <= Len(type_tables)
    /\ \A k \in 1..Len(types_tables) :
          types_tables[k].resource_type = type_tables[k].tag


\* Operation::parse was called on a buffer that ends inside its operation
CutParsed == ppc = "pict-decoder" /\ opin.cut >= 0
\* operations whose operands are all read by parsers that start with
\* ensure_remains_bytes
EnsuredOperands == {PnSize, TxRatio}

\* C33 as stated: on every prefix of the bytes of an operation that parses,
\* Operation::parse returns an error
C33_TruncatedIsError == CutParsed => opout.res = "Err"

\* C33, what holds: no operation is returned; the parse returns
\* UnexpectedEOB when the tag is whole and the cut falls in a Point of PnSize
\* or TxRatio or in the text of a LongText
C33_ErrorWhereEnsured ==
    CutParsed =>
        /\ opout.res \in {"Err", "panic"}
        /\ opin.cut >= 2 /\ opin.tag \in EnsuredOperands
              => opout = Error("UnexpectedEOB", 0)
        /\ opin.tag = LongText /\ opin.cut >= 2 + 4 + 1
                                /\ opin.cut < 2 + 4 + 1 + opin.count
              => opout = Error("UnexpectedEOB", 0)


\* what a fresh Encoder returns for the bytes s: encode, then finalize
FreshEncoding(s) ==
    encode_on(EncIdle, s).out \o finalize_on(encode_on(EncIdle, s).st).out
\* the encoder was finalized a second time
FinalizedAgain == ephase = "finalized again"

\* C34 as stated: after finalize the encoder holds no pending data: a finalize
\* that follows emits no bytes, and bytes encoded in between are encoded as a
\* fresh encoder encodes them
C34_NothingPending ==
    FinalizedAgain => epanic = "none" /\ out_after = FreshEncoding(fed_after)

\* C34, what holds: when the first finalize had nothing to flush, or flushed
\* a literal run and a byte was encoded after it, the bytes encoded after it
\* are encoded as a fresh encoder encodes them
C34_FreshAfterLiteral ==
    (FinalizedAgain /\ (tail = <<>> \/ (tail[1] < 128 /\ fed_after # <<>>)))
        => epanic = "none" /\ out_after = FreshEncoding(fed_after)


\* s is a sequence of complete runs: a literal run of 1..128 bytes without
\* three equal bytes in a row after a control byte below 0x80, a repeat run
\* of 3..128 after a control byte 0x81..0xFE and its value byte; no control
\* byte is 0x80 or 0xFF
RECURSIVE CompleteRuns(_)
CompleteRuns(s) ==
    IF s = <<>> THEN TRUE
    ELSE IF s[1] < 128
    THEN /\ Len(s) >= 2 + s[1]
         /\ NoThreeEqual(SubSeq(s, 2, 2 + s[1]))
         /\ CompleteRuns(SubSeq(s, 3 + s[1], Len(s)))
    ELSE /\ s[1] # 128
         /\ (257 - s[1]) \in MIN_REPEATED..MAX_REPEATED
         /\ Len(s) >= 2
         /\ CompleteRuns(SubSeq(s, 3, Len(s)))

\* C35: the bytes a fresh Encoder returns (encode calls, then one finalize)
\* are a sequence of complete runs in which the control byte 0x80 never
\* occurs, every repeat run has a count in 3..128, every literal run a length
\* in 1..128, and no literal run holds three equal bytes in a row
C35_CompleteRuns == Finalized => CompleteRuns(Emitted)

\* a repeat run of 128 bytes 0x80, then a literal run flushed by finalize
C35_Witness ==
    /\ Finalized /\ Len(Emitted) >= 4
    /\ Emitted[1] = 129 /\ Emitted[2] = 128
    /\ tail # <<>> /\ tail[1] < 128
    /\ \E i \in 1..Len(fed) : fed[i] = 97


\* C36 as stated: after every command the handler has served, the position
\* it records is the cursor of the buffered file
C36_RecordedIsCursor ==
    handler.status \in {"running", "finished"} => handler.pos = handler.cursor

\* C36, what holds: a command that is read at the position it asks for and
\* answered with a value leaves the recorded position on the cursor
C36_AgreeAfterValue ==
    [][(/\ ServeStep
        /\ ReadStart = Head(queue).pos
        /\ readers'[Head(queue).resp].answer.ok) => handler'.pos = handler'.cursor]_vars


\* C37 as stated: every read through AsyncRead makes a request of its own
\* at the reader's position: no poll_read polls a request that is completed,
\* and the bytes of a completed read fit in the caller's buffer, so that no
\* poll_read panics
C37_RequestPerRead == \A i \in ReaderIds : readers[i].panic = "none"

\* the poll_read of reader i returns Ready(Ok) in this step
ReadCompletes(i) ==
    /\ readers[i].request = "pending" /\ readers'[i].request = "completed"
    /\ readers'[i].panic = "none"

\* C37, what holds: a read that completes puts at most the remaining
\* capacity into the caller's buffer and moves pos by the bytes it put there
C37_WithinCapacity ==
    [][\A i \in ReaderIds :
          ReadCompletes(i) =>
              /\ Len(readers'[i].delivered) <= readers[i].wanted
              /\ readers'[i].pos = readers[i].pos + Len(readers'[i].delivered)]_vars


\* reader i waits for the answer to a request; its read has returned
Waiting(i) == readers[i].state = "waiting"
ReadReturned(i) == readers[i].state = "idle"

\* C38 as stated: when no reader is dropped while it waits, every request a
\* reader sends is eventually answered and its read returns, a string read
\* at the end of the file included
C38_EveryRequestAnswered == \A i \in ReaderIds : Waiting(i) ~> ReadReturned(i)

\* C38, what holds: every request is eventually answered unless the handler
\* panicked on a string read that found no byte
C38_AnsweredUnlessAtEnd ==
    \A i \in ReaderIds :
        Waiting(i) ~> (ReadReturned(i) \/ handler.status = "remove_panic")


\* a resource table that was read holds an entry whose file_id_plus_one is 0
ZeroIdRead ==
    \E offset \in DOMAIN dir.resource_tables :
        \E e \in 1..Len(dir.resource_tables[offset]) :
            dir.resource_tables[offset][e].file_id_plus_one = 0
\* a resource table that was parsed holds the FileID 65535
WrappedId ==
    \E k \in 1..Len(types_tables) :
        \E e \in 1..Len(types_tables[k].resource_table) :
            types_tables[k].resource_table[e][2] = 2^16 - 1

\* C39 as stated: an entry whose file_id_plus_one is 0 is handled without
\* wrap-around and without abort: no FileID 65535 is made of it, the parse
\* does not panic, and the join reports UnknownFileID
C39_ZeroFileId ==
    ZeroIdRead =>
        /\ mpc # "panicked"
        /\ ~WrappedId
        /\ mlog[Len(mlog)] = "join" => mres = Err("UnknownFileID")

\* C39, what holds: no catalogue is returned; with overflow checks the parse
\* of the table panics, without them the FileID is 65535 and the join
\* reports UnknownFileID
C39_WrapsOrAborts ==
    ZeroIdRead =>
        /\ mpc # "done"
        /\ mres # Err("IO") =>
              IF overflow_checks THEN mpc = "panicked" /\ ~WrappedId
              ELSE /\ mpc # "panicked"
                   /\ mlog[Len(mlog)] = "join" =>
                         WrappedId /\ mres = Err("UnknownFileID")

\* a turn of the decoding loop of a LongText was taken
TurnTaken == ppc = "long text" /\ decoding'.turns = decoding.turns + 1
\* the turn read bytes of the text, or enlarged the String, or left the loop
TurnAdvanced ==
    \/ decoding'.count < decoding.count
    \/ decoding'.capacity > decoding.capacity
    \/ ppc' = "pict-decoder"

\* C40: the parse of a LongText terminates for every count and every text,
\* bytes above 127 whose UTF-8 form is longer than one byte included: every
\* turn of the decoding loop reads bytes of the text, or enlarges the
\* String, or leaves the loop with the operation or an error.
C40_EveryTurnAdvances == [][TurnTaken => TurnAdvanced]_vars

\* what holds: a turn that does not advance found a byte above 127 with one
\* or two bytes of room in the String, where text.reserve(1) changes nothing
C40_StuckShortOfRoom ==
    [][(TurnTaken /\ ~TurnAdvanced) =>
         /\ decoding.count > 0
         /\ opin.text[decoding.read + 1] > 127
         /\ decoding.capacity - decoding.len \in {1, 2}
         /\ decoding' = [decoding EXCEPT !.turns = decoding.turns + 1]]_vars

\* what holds: a text of ASCII bytes is decoded in one turn
C40_AsciiInOneTurn ==
    (ppc = "long text" /\ \A k \in 1..Len(opin.text) : opin.text[k] < 128)
        => decoding.turns = 0
====
